---- MODULE Spec2Model ----
(***************************************************************************)
(* The orchestration core of TheAgentsClusters: MasterController           *)
(* (src/v1.1/master_controller.py) driving Agent.receive_task              *)
(* (src/agent_template.py) on one asyncio event loop.                      *)
(*                                                                         *)
(* One step of the model is one uninterrupted run of a coroutine or        *)
(* callback between two suspension points of the event loop.  The          *)
(* dispatcher's inner while loop (line 142) has no suspension point (the   *)
(* creation lock is never contended and _create_agent awaits nothing       *)
(* else), so while run_pc is "inner" nothing else can run.                 *)
(*                                                                         *)
(* MemorySystem (src/v1.1/memory.py), the routing rules of _create_agent   *)
(* and ToolExecutorAgent.execute_code_safely (src/tool_executor_agent.py)  *)
(* are also followed on their own, under MemorySpec, RoutingSpec and       *)
(* ExecutorSpec; callers racing for agent_creation_lock under CreateSpec;  *)
(* the whole controller from the middle of a long run under StatusSpec     *)
(* and with tasks for the tool agents under VariantSpec.                   *)
(***************************************************************************)
EXTENDS Naturals, Sequences, FiniteSets

\* ------------------------------------------------------------------ bounds
\* config master_controller.max_concurrent_agents (line 36)
max_concurrent_agents == 2
\* config master_controller.max_task_retries (line 37)
max_task_retries == 1
\* number of external assign_task calls
MaxTasks == 2
\* number of dispatcher re-enqueues after a failed routing (lines 165-169)
MaxRequeues == 2
\* number of history entries appended beyond the capacity of the history
MaxOverflow == 3
\* number of keys the callers of the memory system use
MaxKeys == 1
\* number of calls of MemorySystem.retrieve
MaxRetrieves == 2
\* number of concurrent callers of _create_agent
MaxCallers == 2
\* number of calls of shutdown()
MaxShutdowns == 2

\* deque(maxlen=50) of line 32
HistoryMaxLen == 50

\* every agent ever constructed; one more than the registry bound
AgentIds == 1..(max_concurrent_agents + 1)
AgentTypeHints == {"default", "browser"}
Callers == 1..MaxCallers

\* the hints of _create_agent: the four it knows, the default and one it
\* does not know
RoutingHints == AgentTypeHints \cup {"tool_creator", "tool_executor",
                                     "info_hunter", "synthesizer"}
\* the keys of a task's details the routing looks at (lines 98-104)
RoutingFields == {"url", "description", "code", "code_key"}
\* the words the routing looks for in the lower-cased description
Keywords == {"create", "find", "research", "gather"}

\* the details of a task: the piece of work it stands for, the agent_type
\* hint, which of the routing keys are present, and which of the keywords
\* its description contains
TaskDetails(work, hint, fields, words) ==
    [work |-> work, agent_type |-> hint, fields |-> fields, words |-> words]

NoTask == [task_id |-> 0, details |-> TaskDetails(0, "default", {}, {}),
           status |-> "none", retry_count |-> 0]

VARIABLES
    task_queue,               \* self.task_queue: deque of task records
    agents,                   \* keys of self.agents, the registry
    agent_obj,                \* the Agent instances ever constructed
    active_tasks,             \* keys of self.active_tasks (value: that agent's unit)
    unit,                     \* the asyncio.Task created per dispatch
    completed_tasks_history,  \* self.completed_tasks_history
    running,                  \* self.running
    run_pc,                   \* position of the run() coroutine
    sd_pc,                    \* position of the shutdown() coroutine
    sd_caller,                \* who awaits shutdown(): "run" or "external"
    sd_gather,                \* the units handed to asyncio.gather (line 291)
    status_key,               \* tac_controller_status in the memory store
    next_task_id,             \* uuid4() of assign_task: the next fresh id
    n_assigned,               \* external assign_task calls so far
    n_requeues,               \* dispatcher re-enqueues so far
    backend_type,             \* MemorySystem.backend_type
    short_term_memory,        \* MemorySystem.short_term_memory, the cache
    backend_client,           \* the contents of the long-term backend
    retrieved,                \* the last call of MemorySystem.retrieve
    executor,                 \* execute_code_safely of each ToolExecutorAgent
    agent_creation_lock,      \* self.agent_creation_lock: its holder, 0 if free
    creators,                 \* the callers of _create_agent other than run()
    n_shutdowns               \* calls of shutdown() so far

vars == <<task_queue, agents, agent_obj, active_tasks, unit,
          completed_tasks_history, running, run_pc, sd_pc, sd_caller,
          sd_gather, status_key, next_task_id, n_assigned, n_requeues,
          backend_type, short_term_memory, backend_client, retrieved,
          executor,
                   agent_creation_lock, creators, n_shutdowns>>

\* the memory store has no entry under the key tac_controller_status
StatusAbsent ==
    [present |-> FALSE, task_queue_size |-> 0, pending_tasks |-> 0,
     active_agents |-> 0, active_agent_count |-> 0,
     max_concurrent_agents |-> 0, completed_tasks_history |-> 0]

NoAgent == [state |-> "none", current_task |-> FALSE, has_meta |-> FALSE,
            class |-> "none", release |-> "none"]

NoUnit == [pc |-> "none", must_cancel |-> FALSE, outcome |-> "none",
           started |-> FALSE, reported_state |-> "none",
           cb_pending |-> 0, handled |-> 0, decision |-> "none",
           requeued |-> NoTask, meta |-> NoTask, error |-> FALSE,
           processed |-> <<>>, result |-> [kind |-> "None", text |-> ""]]

\* --------------------------------------------------------------- memory.py
\* the Python values handed to the store: None, a plain string, a string
\* that reads as a JSON number, and an integer
None == [kind |-> "None", text |-> ""]
StrVal(t) == [kind |-> "str", text |-> t]
IntVal(t) == [kind |-> "int", text |-> t]
Values == {StrVal("text"), StrVal("7"), IntVal("7")}

\* the backends MemorySystem.__init__ ends up with (lines 24-70)
BackendTypes == {"redis", "json_file", "vector_db", "short_term_only"}

\* the keys of the store: <agent_id>_last_result of each agent
Keys == AgentIds

\* json.dumps of a value (lines 140 and 154)
JsonDumps(v) ==
    CASE v.kind = "None" -> StrVal("null")
      [] v.kind = "int" -> StrVal(v.text)
      [] v.kind = "str" -> StrVal("\"" \o v.text \o "\"")

\* json.loads succeeds on the text (lines 196 and 218); "null", numbers and
\* quoted strings are JSON documents, other text raises JSONDecodeError
JsonDecodable(s) == \E v \in Values \cup {None} : JsonDumps(v) = s

\* json.loads of a JSON document
JsonLoads(s) == CHOOSE v \in Values \cup {None} : JsonDumps(v) = s

\* lines 137-141: what a Redis SET is handed, read back as a string
\* (decode_responses=True, line 38): str, int and float go as they are,
\* anything else through json.dumps
RedisSet(v) ==
    IF v.kind \in {"str", "int"} THEN StrVal(v.text) ELSE JsonDumps(v)

\* what store leaves in the backend for a value, lines 136-166
StoredForm(type, v) ==
    CASE type = "redis" -> RedisSet(v)
      [] type = "json_file" -> v
      [] type = "vector_db" -> JsonDumps(v)
      [] OTHER -> None

\* store, lines 124-166: always into the cache, into the backend unless
\* is_short_term; a failing Redis or Chroma call (~ok) is logged and dropped
store(type, stm, bc, key, value, is_short_term, ok) ==
    [short_term_memory |-> [stm EXCEPT ![key] = value],
     backend_client |->
         IF is_short_term \/ type = "short_term_only"
              \/ (~ok /\ type \in {"redis", "vector_db"})
         THEN bc
         ELSE [bc EXCEPT ![key] = StoredForm(type, value)]]

\* lines 187-226: the backend read of retrieve, the value it yields (None
\* when the key is absent or the call fails)
BackendRead(type, bc, key, ok) ==
    LET raw == bc[key]
    IN  CASE type = "redis" ->
               IF ~ok \/ raw = None THEN None
               ELSE IF JsonDecodable(raw) THEN JsonLoads(raw) ELSE raw
          [] type = "json_file" -> raw
          [] type = "vector_db" ->
               IF ~ok \/ raw = None \/ ~JsonDecodable(raw) THEN None
               ELSE JsonLoads(raw)
          [] OTHER -> None

\* lines 182-185 reading the backend before the cache
retrieveBackendFirst(type, stm, bc, key, check_long_term_if_missing, ok) ==
    LET found == BackendRead(type, bc, key, ok)
    IN  IF found # None
        THEN [value |-> found, consulted |-> TRUE,
              short_term_memory |-> [stm EXCEPT ![key] = found]]
        ELSE [value |-> stm[key], consulted |-> TRUE,
              short_term_memory |-> stm]

\* retrieve, lines 169-230: the cache first, then on a miss and only if
\* asked the backend, whose value is cached before it is returned
retrieve(type, stm, bc, key, check_long_term_if_missing, ok) ==
    IF stm[key] # None
    THEN [value |-> stm[key], consulted |-> FALSE, short_term_memory |-> stm]
    ELSE IF ~check_long_term_if_missing \/ type = "short_term_only"
    THEN [value |-> None, consulted |-> FALSE, short_term_memory |-> stm]
    ELSE LET found == BackendRead(type, bc, key, ok)
         IN  [value |-> found, consulted |-> TRUE,
              short_term_memory |->
                  IF found # None THEN [stm EXCEPT ![key] = found] ELSE stm]

\* ------------------------------------------------- agent_template.py, 22-52
\* what process_task returns, and str(e) of the error it raises
ProcessResult == StrVal("Processed result")
ErrorMessage == StrVal("error message")

\* line 45 always handing report_back the error
ReportedValueAlwaysError(state, result, error) == error

\* line 45 always handing report_back the result
ReportedValueAlwaysResult(state, result, error) == result

\* line 45: result if self.state == "finished" else error
ReportedValue(state, result, error) ==
    IF state = "finished" THEN result ELSE error

\* report_back, lines 101-109: a value other than None is stored under
\* <agent_id>_last_result in the cache and the backend
report_back(type, stm, bc, a, result) ==
    IF result # None
    THEN store(type, stm, bc, a, result, FALSE, TRUE)
    ELSE [short_term_memory |-> stm, backend_client |-> bc]

\* no call of retrieve has been made
NoRetrieve == [calls |-> 0, key |-> 0, check |-> FALSE, value |-> None,
               consulted |-> FALSE]

\* execute_code_safely has not been called
NoExec == [pc |-> "idle", process |-> "none", result |-> "none",
           tmp_file |-> FALSE, timed_out |-> FALSE]

\* _create_agent has not been called by this caller
NoCall == [pc |-> "idle", result |-> "pending", agent |-> 0,
           agent_type |-> "default"]

\* nobody has called _create_agent or shutdown (the lock of line 35 is free)
NoCalls ==
    /\ agent_creation_lock = 0
    /\ creators = [c \in Callers |-> NoCall]
    /\ n_shutdowns = 0

\* the memory system as __init__ leaves it with the default backend
\* (memory.py lines 24-26 and 88-92) and agents that have done nothing
MemoryIdle ==
    /\ backend_type = "json_file"
    /\ short_term_memory = [k \in Keys |-> None]
    /\ backend_client = [k \in Keys |-> None]
    /\ retrieved = NoRetrieve
    /\ executor = [a \in AgentIds |-> NoExec]

Init ==
    /\ MemoryIdle
    /\ NoCalls
    /\ task_queue = <<>>
    /\ agents = {}
    /\ agent_obj = [a \in AgentIds |-> NoAgent]
    /\ active_tasks = {}
    /\ unit = [a \in AgentIds |-> NoUnit]
    /\ completed_tasks_history = <<>>
    /\ running = FALSE
    /\ run_pc = "not_started"
    /\ sd_pc = "idle"
    /\ sd_caller = "none"
    /\ sd_gather = {}
    /\ status_key = StatusAbsent
    /\ next_task_id = 1
    /\ n_assigned = 0
    /\ n_requeues = 0

\* The event loop is free to run something other than the dispatcher.
Yielded == run_pc \in {"not_started", "sleep", "shutdown", "exited"}

\* ------------------------------------------------------------ assign_task
\* line 65 giving the new record the status of a launched one
NewTaskRunning(task_id, details, retry_count) ==
    [task_id |-> task_id, details |-> details, status |-> "running",
     retry_count |-> retry_count]

\* lines 62-67: the record assign_task builds
NewTask(task_id, details, retry_count) ==
    [task_id |-> task_id, details |-> details, status |-> "pending",
     retry_count |-> retry_count]

\* lines 68-72 with appendleft for every record
assign_taskAtHead(q, task_id, details, retry_count) ==
    <<NewTask(task_id, details, retry_count)>> \o q

\* lines 68-72 with append for every record
assign_taskAtTail(q, task_id, details, retry_count) ==
    Append(q, NewTask(task_id, details, retry_count))

\* assign_task, lines 59-74: retries go to the head, fresh tasks to the tail
assign_task(q, task_id, details, retry_count) ==
    IF retry_count > 0
    THEN <<NewTask(task_id, details, retry_count)>> \o q
    ELSE Append(q, NewTask(task_id, details, retry_count))

\* an external caller (cli.py line 66, main() lines 359-383)
AssignTask(hint) ==
    /\ Yielded
    /\ n_assigned < MaxTasks
    /\ task_queue' = assign_task(task_queue, next_task_id,
                                 TaskDetails(n_assigned + 1, hint, {}, {}), 0)
    /\ next_task_id' = next_task_id + 1
    /\ n_assigned' = n_assigned + 1
    /\ UNCHANGED <<agents, agent_obj, active_tasks, unit,
                   completed_tasks_history, running, run_pc, sd_pc, sd_caller,
                   sd_gather, status_key, n_requeues>>
    /\ UNCHANGED <<backend_type, short_term_memory, backend_client, retrieved,
                   executor,
                   agent_creation_lock, creators, n_shutdowns>>

\* line 79 with > written for >=: a registry already at the bound passes
AtCapacityOffByOne == Cardinality(agents) > max_concurrent_agents

\* ---------------------------------------------------------- _create_agent
\* line 79: the capacity check made under agent_creation_lock
AtCapacity == Cardinality(agents) >= max_concurrent_agents

\* lines 96-105 with the test for code and code_key made before the test
\* for 'create'
EffectiveAgentTypeCodeFirst(agent_type, task_info) ==
    IF agent_type # "default" THEN agent_type
    ELSE IF "url" \in task_info.fields THEN "browser"
    ELSE IF task_info.fields \cap {"code", "code_key"} # {} THEN "tool_executor"
    ELSE IF "description" \in task_info.fields /\ "create" \in task_info.words
    THEN "tool_creator"
    ELSE IF /\ "description" \in task_info.fields
            /\ task_info.words \cap {"find", "research", "gather"} # {}
    THEN "info_hunter"
    ELSE agent_type

\* lines 96-105: a hint other than 'default' is taken as it is, the default
\* is replaced by the first rule the task's details match
EffectiveAgentType(agent_type, task_info) ==
    IF agent_type # "default" THEN agent_type
    ELSE IF "url" \in task_info.fields THEN "browser"
    ELSE IF "description" \in task_info.fields /\ "create" \in task_info.words
    THEN "tool_creator"
    ELSE IF task_info.fields \cap {"code", "code_key"} # {} THEN "tool_executor"
    ELSE IF /\ "description" \in task_info.fields
            /\ task_info.words \cap {"find", "research", "gather"} # {}
    THEN "info_hunter"
    ELSE agent_type

\* lines 110-124: the class constructed for an effective type
ClassOf(effective_agent_type) ==
    CASE effective_agent_type = "browser" -> "BrowserAgent"
      [] effective_agent_type = "tool_creator" -> "ToolCreatorAgent"
      [] effective_agent_type = "tool_executor" -> "ToolExecutorAgent"
      [] effective_agent_type = "info_hunter" -> "InfoHunterAgent"
      [] OTHER -> "Agent"

\* lines 96-124 with the hint run() reads from the details (line 147)
AgentClass(details) ==
    ClassOf(EffectiveAgentType(details.agent_type, details))

\* line 149 handing the task to an agent already in the registry
NewAgentIdReused == IF agents = {} THEN 1 ELSE CHOOSE a \in agents : TRUE

\* line 83: f"{agent_type}-{uuid4()[:8]}", a fresh identifier
NewAgentId == Cardinality({a \in AgentIds : agent_obj[a].class # "none"}) + 1

\* line 164 executed twice for the same unit
DoneCallbacksTwice == 1 + 1

\* line 164: add_done_callback(self._handle_task_completion), once per unit
DoneCallbacks == 1

\* ------------------------------------------------------------------ run()
\* lines 135-140: run() starts, sets the flag and enters its loop
RunStart ==
    /\ run_pc = "not_started"
    /\ running' = TRUE
    /\ run_pc' = "inner"
    /\ UNCHANGED <<task_queue, agents, agent_obj, active_tasks, unit,
                   completed_tasks_history, sd_pc, sd_caller, sd_gather,
                   status_key, next_task_id, n_assigned, n_requeues>>
    /\ UNCHANGED <<backend_type, short_term_memory, backend_client, retrieved,
                   executor,
                   agent_creation_lock, creators, n_shutdowns>>

\* line 142: the condition of the inner while loop
LoopCond ==
    /\ task_queue # <<>>
    /\ Cardinality(active_tasks) < max_concurrent_agents

\* lines 143-164: one iteration of the inner loop in which routing succeeds
DispatchOne ==
    /\ run_pc = "inner"
    /\ LoopCond
    /\ ~AtCapacity
    /\ NewAgentId \in AgentIds
    /\ LET task == Head(task_queue)
           a == NewAgentId
       IN  /\ task_queue' = Tail(task_queue)
           /\ agents' = agents \cup {a}
           /\ agent_obj' = [agent_obj EXCEPT ![a] =
                  [state |-> "idle", current_task |-> FALSE,
                   has_meta |-> FALSE, class |-> AgentClass(task.details),
                   release |-> "none"]]
           /\ active_tasks' = active_tasks \cup {a}
           /\ unit' = [unit EXCEPT ![a] =
                  [NoUnit EXCEPT !.pc = "scheduled",
                                 !.meta = [task EXCEPT !.status = "running"]]]
    /\ UNCHANGED <<completed_tasks_history, running, run_pc, sd_pc, sd_caller,
                   sd_gather, status_key, next_task_id, n_assigned, n_requeues>>
    /\ UNCHANGED <<backend_type, short_term_memory, backend_client, retrieved,
                   executor,
                   agent_creation_lock, creators, n_shutdowns>>

\* lines 165-172 with the commented-out appendleft of line 172 active as well
RequeueKeepingOriginal(q, task, task_id) ==
    <<task>> \o assign_task(q, task_id, task.details, task.retry_count)

\* line 169 handing assign_task a retry_count one higher
RequeueConsumingRetry(q, task, task_id) ==
    assign_task(q, task_id, task.details, task.retry_count + 1)

\* lines 165-169: routing failed, the dequeued task goes back through
\* assign_task with its retry_count
RequeueUndispatched(q, task, task_id) ==
    assign_task(q, task_id, task.details, task.retry_count)

\* lines 143-153 and 165-174: one iteration in which _create_agent returns None
DispatchRequeue ==
    /\ run_pc = "inner"
    /\ LoopCond
    /\ AtCapacity
    /\ n_requeues < MaxRequeues
    /\ task_queue' = RequeueUndispatched(Tail(task_queue), Head(task_queue),
                                         next_task_id)
    /\ next_task_id' = next_task_id + 1
    /\ n_requeues' = n_requeues + 1
    /\ UNCHANGED <<agents, agent_obj, active_tasks, unit,
                   completed_tasks_history, running, run_pc, sd_pc, sd_caller,
                   sd_gather, status_key, n_assigned>>
    /\ UNCHANGED <<backend_type, short_term_memory, backend_client, retrieved,
                   executor,
                   agent_creation_lock, creators, n_shutdowns>>

\* lines 110-117: the constructors of the agent subclasses read nested
\* configuration sections and the LLM client (browser_agent.py lines 21-25,
\* tool_executor_agent.py line 17, tool_creator_agent.py line 12) and raise
\* when those are missing; Agent.__init__ (agent_template.py lines 11-20)
\* and InfoHunterAgent.__init__ (info_hunter_agent.py lines 14-16) do not
ConstructorMayRaise(details) ==
    AgentClass(details) \notin {"Agent", "InfoHunterAgent"}

\* lines 143-152 when the constructor raises: the task has been dequeued and
\* the exception leaves _create_agent and both loops of run().  Only a
\* controller on which shutdown() has not been called yet is followed here.
DispatchRaise ==
    /\ run_pc = "inner"
    /\ LoopCond
    /\ ~AtCapacity
    /\ sd_pc = "idle"
    /\ ConstructorMayRaise(Head(task_queue).details)
    /\ task_queue' = Tail(task_queue)
    /\ run_pc' = "raised"
    /\ UNCHANGED <<agents, agent_obj, active_tasks, unit,
                   completed_tasks_history, running, sd_pc, sd_caller,
                   sd_gather, status_key, next_task_id, n_assigned,
                   n_requeues>>
    /\ UNCHANGED <<backend_type, short_term_memory, backend_client, retrieved,
                   executor,
                   agent_creation_lock, creators, n_shutdowns>>

\* line 342 counting the units in flight instead of the registered agents
StatusDataCountingUnits ==
    [present |-> TRUE,
     task_queue_size |-> Len(task_queue),
     pending_tasks |-> Len(task_queue),
     active_agents |-> Cardinality(agents),
     active_agent_count |-> Cardinality(active_tasks),
     max_concurrent_agents |-> max_concurrent_agents,
     completed_tasks_history |-> Len(completed_tasks_history)]

\* lines 334-345: status_data, built without a suspension point from the
\* queue, the registry and the history; of each collection the snapshot
\* holds, the number of its entries is kept
StatusData ==
    [present |-> TRUE,
     task_queue_size |-> Len(task_queue),
     pending_tasks |-> Len(task_queue),
     active_agents |-> Cardinality(agents),
     active_agent_count |-> Cardinality(agents),
     max_concurrent_agents |-> max_concurrent_agents,
     completed_tasks_history |-> Len(completed_tasks_history)]

\* lines 329-332 leaving the key in place on clear_on_shutdown
UpdateStatusWithoutDelete(clear_on_shutdown, key) ==
    IF clear_on_shutdown THEN key ELSE StatusData

\* _update_status_in_memory, lines 324-352: delete the key on
\* clear_on_shutdown (memory.py lines 232-234), else store a snapshot in the
\* short-term store (memory.py line 133)
UpdateStatus(clear_on_shutdown, key) ==
    IF clear_on_shutdown THEN StatusAbsent ELSE StatusData

\* lines 176-187: the inner loop is over; break on a drained, stopped
\* controller (then lines 189-191), else publish when the interval has
\* elapsed and sleep
InnerExit ==
    /\ run_pc = "inner"
    /\ ~LoopCond
    /\ IF task_queue = <<>> /\ active_tasks = {} /\ ~running
       THEN run_pc' = "exited" /\ status_key' = UpdateStatus(TRUE, status_key)
       ELSE /\ run_pc' = "sleep"
            /\ \E elapsed \in BOOLEAN :
                 status_key' = IF elapsed THEN UpdateStatus(FALSE, status_key)
                               ELSE status_key
    /\ UNCHANGED <<task_queue, agents, agent_obj, active_tasks, unit,
                   completed_tasks_history, running, sd_pc, sd_caller,
                   sd_gather, next_task_id, n_assigned, n_requeues>>
    /\ UNCHANGED <<backend_type, short_term_memory, backend_client, retrieved,
                   executor,
                   agent_creation_lock, creators, n_shutdowns>>

\* line 187: asyncio.sleep(0.5) is over; line 140: while self.running or
\* self.active_tasks, with lines 189-191 and the finally of 202-204 on the
\* way out
RunWake ==
    /\ run_pc = "sleep"
    /\ IF running \/ active_tasks # {}
       THEN run_pc' = "inner" /\ status_key' = status_key
       ELSE run_pc' = "exited" /\ status_key' = UpdateStatus(TRUE, status_key)
    /\ UNCHANGED <<task_queue, agents, agent_obj, active_tasks, unit,
                   completed_tasks_history, running, sd_pc, sd_caller,
                   sd_gather, next_task_id, n_assigned, n_requeues>>
    /\ UNCHANGED <<backend_type, short_term_memory, backend_client, retrieved,
                   executor,
                   agent_creation_lock, creators, n_shutdowns>>

\* ------------------------------------------------------ the dispatched unit
\* line 32 without maxlen: a plain deque
HistoryAppendUnbounded(h, entry) == Append(h, entry)

\* history is a deque(maxlen=50): appending to a full deque drops the oldest
HistoryAppend(h, entry) ==
    IF Len(h) >= HistoryMaxLen THEN Append(Tail(h), entry) ELSE Append(h, entry)

\* agent_template.py line 35 treating the cancellation as an ordinary failure
CancelledAgentStateAsError == "error"

\* agent_template.py line 35: the state set when CancelledError arrives
CancelledAgentState == "cancelled"

\* agent_template.py line 40 setting the state of line 31
StateAfterProcessAlwaysFinished(ok) == "finished"

\* agent_template.py lines 31 and 40: the state after process_task
StateAfterProcess(ok) == IF ok THEN "finished" ELSE "error"

\* master_controller.py line 214: receive_task returned (it swallows ordinary
\* failures, agent_template.py lines 38-41), so the except of line 220 is
\* not reached and the status is 'completed' whatever the agent's state
StatusAfterReturn(agent_state) == "completed"

\* The unit's first step: _run_agent_task up to the first suspension inside
\* process_task (lines 207-213, agent_template.py lines 23-30).  A unit
\* cancelled before its first step never runs its body.
UnitStart(a) ==
    /\ Yielded
    /\ unit[a].pc = "scheduled"
    /\ IF unit[a].must_cancel
       THEN /\ unit' = [unit EXCEPT ![a].pc = "done",
                                    ![a].outcome = "cancelled",
                                    ![a].cb_pending = DoneCallbacks]
            /\ agent_obj' = agent_obj
       ELSE /\ unit' = [unit EXCEPT ![a].pc = "processing",
                                    ![a].started = TRUE,
                                    ![a].processed =
                                        Append(@, unit[a].meta.details)]
            /\ agent_obj' = [agent_obj EXCEPT ![a].has_meta = TRUE,
                                              ![a].state = "running",
                                              ![a].current_task = TRUE]
    /\ UNCHANGED <<task_queue, agents, active_tasks,
                   completed_tasks_history, running, run_pc, sd_pc, sd_caller,
                   sd_gather, status_key, next_task_id, n_assigned, n_requeues>>
    /\ UNCHANGED <<backend_type, short_term_memory, backend_client, retrieved,
                   executor,
                   agent_creation_lock, creators, n_shutdowns>>

\* the error result strings of the agent variants: tool_executor_agent.py
\* lines 31 and 99, tool_creator_agent.py lines 22 and 24
NoCodeError == StrVal("Error: No code provided or found in memory")
TimeoutError == StrVal("Error: Code execution timed out")
NoDescriptionError == StrVal("Error: Missing 'description'")
NoClientError == StrVal("Error: LLM client not available")
ErrorResults == {NoCodeError, TimeoutError, NoDescriptionError, NoClientError}

\* what process_task of an agent of this class may return for these task
\* details: tool_executor_agent.py lines 19-38 (with execute_code_safely,
\* lines 40-108), tool_creator_agent.py lines 15-48, and for the other
\* classes some result
ProcessTaskResults(class, details) ==
    IF class = "ToolExecutorAgent"
    THEN IF "code" \in details.fields THEN {ProcessResult, TimeoutError}
         ELSE IF "code_key" \in details.fields
         THEN {ProcessResult, TimeoutError, NoCodeError}
         ELSE {NoCodeError}
    ELSE IF class = "ToolCreatorAgent"
    THEN IF "description" \in details.fields
         THEN {ProcessResult, NoClientError}
         ELSE {NoDescriptionError}
    ELSE {ProcessResult}

\* tool_executor_agent.py line 31 and tool_creator_agent.py line 22 raising
\* instead of returning their error string
ProcessTaskMayRaiseAlways(class, details) == TRUE

\* can process_task raise for these task details: not where it returns its
\* error string before doing anything (tool_executor_agent.py lines 22-31,
\* tool_creator_agent.py lines 18-22)
ProcessTaskMayRaise(class, details) ==
    ProcessTaskResults(class, details) \notin {{NoCodeError},
                                               {NoDescriptionError}}

\* process_task returns (ok) or raises an ordinary error (~ok):
\* agent_template.py lines 30-32 or 38-41, the finally of 43-52, then
\* master_controller.py lines 214-215 and the finally of 225-228
UnitFinish(a, ok) ==
    /\ Yielded
    /\ unit[a].pc = "processing"
    /\ ~unit[a].must_cancel
    /\ ok \/ ProcessTaskMayRaise(agent_obj[a].class, unit[a].meta.details)
    /\ \E returned \in ProcessTaskResults(agent_obj[a].class,
                                          unit[a].meta.details) :
       LET st == StateAfterProcess(ok)
           result == IF ok THEN returned ELSE None
           error == IF ok THEN None ELSE ErrorMessage
           memory == report_back(backend_type, short_term_memory,
                                 backend_client, a,
                                 ReportedValue(st, result, error))
           meta == [unit[a].meta EXCEPT !.status = StatusAfterReturn(st)]
       IN  /\ agent_obj' = [agent_obj EXCEPT ![a].state = st,
                                             ![a].current_task = FALSE]
           /\ short_term_memory' = memory.short_term_memory
           /\ backend_client' = memory.backend_client
           /\ unit' = [unit EXCEPT ![a].pc = "done",
                                   ![a].outcome = "returned",
                                   ![a].error = ~ok,
                                   ![a].result = result,
                                   ![a].reported_state = st,
                                   ![a].meta = meta,
                                   ![a].cb_pending = DoneCallbacks]
           /\ completed_tasks_history' =
                  HistoryAppend(completed_tasks_history, meta)
    /\ UNCHANGED <<task_queue, agents, active_tasks, running, run_pc, sd_pc,
                   sd_caller, sd_gather, status_key, next_task_id, n_assigned,
                   n_requeues, backend_type, retrieved, executor,
                   agent_creation_lock, creators, n_shutdowns>>

\* CancelledError is thrown into process_task: agent_template.py lines 33-37
\* and 43-52, then master_controller.py lines 216-219 and 225-228
UnitCancelled(a) ==
    /\ Yielded
    /\ unit[a].pc = "processing"
    /\ unit[a].must_cancel
    /\ LET st == CancelledAgentState
           memory == report_back(backend_type, short_term_memory,
                                 backend_client, a,
                                 ReportedValue(st, None, None))
           meta == [unit[a].meta EXCEPT !.status = "cancelled"]
       IN  /\ agent_obj' = [agent_obj EXCEPT ![a].state = st,
                                             ![a].current_task = FALSE]
           /\ short_term_memory' = memory.short_term_memory
           /\ backend_client' = memory.backend_client
           /\ unit' = [unit EXCEPT ![a].pc = "done",
                                   ![a].outcome = "cancelled",
                                   ![a].reported_state = st,
                                   ![a].meta = meta,
                                   ![a].cb_pending = DoneCallbacks]
           /\ completed_tasks_history' =
                  HistoryAppend(completed_tasks_history, meta)
    /\ UNCHANGED <<task_queue, agents, active_tasks, running, run_pc, sd_pc,
                   sd_caller, sd_gather, status_key, next_task_id, n_assigned,
                   n_requeues, backend_type, retrieved, executor,
                   agent_creation_lock, creators, n_shutdowns>>

\* line 258 with <= written for <
RetryAllowedOnceMore(meta) == meta.retry_count <= max_task_retries

\* ------------------------------------------------- _handle_task_completion
\* line 258: the retry budget test
RetryAllowed(meta) == meta.retry_count < max_task_retries

\* line 260 with the + 1 left out
RetryCountUnchanged(meta) == meta.retry_count

\* line 260: the retry_count handed to assign_task
RetryCountOf(meta) == meta.retry_count + 1


\* lines 250-269 with the agent deleted from self.agents next to line 252
RegistryWithoutAgent(registry, agent_id) == registry \ {agent_id}

\* lines 250-269: the handler deletes the unit from active_tasks (line 252)
\* and leaves self.agents as it is ("Consider cleanup/reuse", line 264)
RegistryAfterCompletion(registry, agent_id) == registry

\* lines 238-248 looking the unit's agent up in the registry
MappedBackByRegistry(a, in_flight) == a \in agents

\* lines 238-248: the scan of self.active_tasks for the finished unit
MappedBack(a, in_flight) == a \in in_flight

\* lines 231-277, the done callback of one unit.  The scan of lines 238-248
\* finds the unit only while it is in active_tasks, and the task meta only
\* while the agent is registered and carries _task_meta_for_callback.
HandleCompletion(a) ==
    /\ Yielded
    /\ unit[a].pc = "done"
    /\ unit[a].cb_pending > 0
    /\ LET found == MappedBack(a, active_tasks)
           agent_instance == found /\ a \in agents
           original_task_meta ==
               IF agent_instance /\ agent_obj[a].has_meta
               THEN unit[a].meta ELSE NoTask
           failed == /\ agent_instance
                     /\ agent_obj[a].state = "error"
                     /\ original_task_meta # NoTask
           retry == failed /\ RetryAllowed(original_task_meta)
           decision == IF ~found THEN "unmapped"
                       ELSE IF retry THEN "retried"
                       ELSE IF failed THEN "gave_up"
                       ELSE "no_retry"
       IN  /\ active_tasks' = active_tasks \ {a}
           /\ agents' = RegistryAfterCompletion(agents, a)
           /\ task_queue' =
                  IF retry
                  THEN assign_task(task_queue, next_task_id,
                                   original_task_meta.details,
                                   RetryCountOf(original_task_meta))
                  ELSE task_queue
           /\ next_task_id' = IF retry THEN next_task_id + 1 ELSE next_task_id
           /\ agent_obj' = IF agent_instance
                           THEN [agent_obj EXCEPT ![a].has_meta = FALSE]
                           ELSE agent_obj
           /\ unit' = [unit EXCEPT
                  ![a].cb_pending = @ - 1,
                  ![a].handled = @ + 1,
                  ![a].decision = decision,
                  ![a].requeued =
                      IF retry
                      THEN NewTask(next_task_id, original_task_meta.details,
                                   RetryCountOf(original_task_meta))
                      ELSE @]
    /\ UNCHANGED <<completed_tasks_history, running, run_pc, sd_pc,
                   sd_caller, sd_gather, status_key, n_assigned, n_requeues>>
    /\ UNCHANGED <<backend_type, short_term_memory, backend_client, retrieved,
                   executor,
                   agent_creation_lock, creators, n_shutdowns>>

\* line 291 left out: shutdown goes on without awaiting the cancelled units
GatherNotAwaited(S) == TRUE

\* --------------------------------------------------------------- shutdown()
\* line 291: await asyncio.gather(*active_tasks.values(), return_exceptions=True)
\* resumes once every gathered unit is done and its earlier-registered done
\* callback (the completion handler) has run
GatherComplete(S) ==
    \A a \in S : unit[a].pc = "done" /\ unit[a].cb_pending = 0

\* lines 291 and 306 without return_exceptions=True: the first exception of
\* a gathered awaitable is raised to the caller of gather
GatherRaisesFirst(exceptions) == exceptions # {}

\* lines 291 and 306: asyncio.gather(..., return_exceptions=True) returns the
\* exceptions of the gathered awaitables in its result list and raises none
GatherRaises(exceptions) == FALSE

\* line 309 left out: the registry keeps its agents
RegistryKept(registry) == registry

\* line 309: self.agents.clear()
RegistryCleared(registry) == {}

\* lines 298-302: does any registered agent have shutdown_browser
NeedsRelease == \E a \in agents : agent_obj[a].class = "BrowserAgent"

\* lines 296-311 from the agents' stop on, up to the await of line 306 when
\* there is a resource to release, else to the end; with run() as the caller
\* the finally of lines 202-204 follows
StopAgents(caller) ==
    /\ agent_obj' = [a \in AgentIds |->
           IF a \in agents THEN [agent_obj[a] EXCEPT !.state = "stopped"]
           ELSE agent_obj[a]]
    /\ IF NeedsRelease
       THEN /\ sd_pc' = "release"
            /\ run_pc' = IF caller = "run" THEN "shutdown" ELSE run_pc
            /\ UNCHANGED <<agents, task_queue, status_key>>
       ELSE /\ sd_pc' = "done"
            /\ agents' = RegistryCleared(agents)
            /\ task_queue' = <<>>
            /\ run_pc' = IF caller = "run" THEN "exited" ELSE run_pc
            /\ status_key' = IF caller = "run"
                             THEN UpdateStatus(TRUE, status_key)
                             ELSE status_key

\* lines 280-291 (or to the end when nothing is in flight), on a controller
\* that has not been shut down or whose earlier shutdown has returned; the
\* tasks of line 291 are remembered in sd_gather
ShutdownBegin(caller) ==
    /\ sd_pc \in {"idle", "done"}
    /\ n_shutdowns < MaxShutdowns
    /\ n_shutdowns' = n_shutdowns + 1
    /\ running' = FALSE
    /\ sd_caller' = caller
    /\ sd_gather' = IF active_tasks # {} THEN active_tasks ELSE sd_gather
    /\ IF active_tasks # {}
       THEN /\ unit' = [a \in AgentIds |->
                  IF a \in active_tasks /\ unit[a].pc # "done"
                  THEN [unit[a] EXCEPT !.must_cancel = TRUE]
                  ELSE unit[a]]
            /\ sd_pc' = "gather"
            /\ UNCHANGED <<agents, agent_obj, task_queue, status_key>>
            /\ run_pc' = IF caller = "run" THEN "shutdown" ELSE run_pc
       ELSE /\ unit' = unit
            /\ StopAgents(caller)
    /\ UNCHANGED <<active_tasks, completed_tasks_history, next_task_id,
                   n_assigned, n_requeues>>
    /\ UNCHANGED <<backend_type, short_term_memory, backend_client, retrieved,
                   executor,
                   agent_creation_lock, creators>>

\* shutdown() awaited by some other coroutine while run() sleeps, or once
\* more after run() has ended
ShutdownCall ==
    /\ run_pc = "sleep" \/ (run_pc = "exited" /\ sd_pc = "done")
    /\ ShutdownBegin("external")

\* lines 196-198: run() is cancelled in its sleep and awaits shutdown()
RunCancelled ==
    /\ run_pc = "sleep"
    /\ ShutdownBegin("run")

\* lines 199-201: the except clause of run() awaits shutdown()
RunError ==
    /\ run_pc = "raised"
    /\ ShutdownBegin("run")

\* an exception leaves shutdown(); with run() as the caller the finally of
\* lines 202-204 follows
ShutdownRaised(caller) ==
    /\ sd_pc' = "raised"
    /\ run_pc' = IF caller = "run" THEN "exited" ELSE run_pc
    /\ status_key' = IF caller = "run"
                      THEN UpdateStatus(TRUE, status_key)
                      ELSE status_key
    /\ UNCHANGED <<agents, task_queue>>

\* line 293 left out: the in-flight map keeps its entries
ActiveTasksKept(in_flight) == in_flight

\* line 293: self.active_tasks.clear()
ActiveTasksCleared(in_flight) == {}

\* lines 292-311: the gather is over; the units that ended cancelled are
\* its collected exceptions
ShutdownAfterGather ==
    /\ Yielded
    /\ sd_pc = "gather"
    /\ GatherComplete(sd_gather)
    /\ IF GatherRaises({a \in sd_gather : unit[a].outcome = "cancelled"})
       THEN /\ ShutdownRaised(sd_caller)
            /\ UNCHANGED <<active_tasks, agent_obj>>
       ELSE /\ active_tasks' = ActiveTasksCleared(active_tasks)
            /\ StopAgents(sd_caller)
    /\ UNCHANGED <<unit, completed_tasks_history, running, sd_caller,
                   sd_gather, next_task_id, n_assigned, n_requeues>>
    /\ UNCHANGED <<backend_type, short_term_memory, backend_client, retrieved,
                   executor,
                   agent_creation_lock, creators, n_shutdowns>>

\* lines 300-302: the agents whose shutdown_browser was scheduled
Releasing == {a \in agents : agent_obj[a].class = "BrowserAgent"}

\* lines 306-311: the release of the agents' resources is over; any of the
\* shutdown_browser calls may have failed (browser_agent.py lines 152-156
\* await the page's and the browser's close outside any try)
ShutdownAfterRelease ==
    /\ Yielded
    /\ sd_pc = "release"
    /\ \E failed \in SUBSET Releasing :
         /\ agent_obj' = [a \in AgentIds |->
                IF a \in Releasing
                THEN [agent_obj[a] EXCEPT
                        !.release = IF a \in failed THEN "failed" ELSE "closed"]
                ELSE agent_obj[a]]
         /\ IF GatherRaises(failed)
            THEN ShutdownRaised(sd_caller)
            ELSE /\ sd_pc' = "done"
                 /\ agents' = RegistryCleared(agents)
                 /\ task_queue' = <<>>
                 /\ run_pc' = IF sd_caller = "run" THEN "exited" ELSE run_pc
                 /\ status_key' = IF sd_caller = "run"
                                   THEN UpdateStatus(TRUE, status_key)
                                   ELSE status_key
    /\ UNCHANGED <<active_tasks, unit, completed_tasks_history,
                   running, sd_caller, sd_gather, next_task_id, n_assigned,
                   n_requeues>>
    /\ UNCHANGED <<backend_type, short_term_memory, backend_client, retrieved,
                   executor,
                   agent_creation_lock, creators, n_shutdowns>>

\* ---------------------------------------------------------------- the system
Next ==
    \/ \E hint \in AgentTypeHints : AssignTask(hint)
    \/ RunStart
    \/ DispatchOne
    \/ DispatchRequeue
    \/ DispatchRaise
    \/ RunError
    \/ InnerExit
    \/ RunWake
    \/ \E a \in AgentIds : UnitStart(a)
    \/ \E a \in AgentIds, ok \in BOOLEAN : UnitFinish(a, ok)
    \/ \E a \in AgentIds : UnitCancelled(a)
    \/ \E a \in AgentIds : HandleCompletion(a)
    \/ ShutdownCall
    \/ RunCancelled
    \/ ShutdownAfterGather
    \/ ShutdownAfterRelease

Spec == Init /\ [][Next]_vars

\* ------------------------------------------------- the history on its own
\* the record of the k-th unit that has ended, as line 227 appends it
EndedRecord(k, status) ==
    [task_id |-> k, details |-> TaskDetails(k, "default", {}, {}),
     status |-> status, retry_count |-> 0]

\* a controller whose units have left n entries in the history so far, the
\* history full or nearly so
HistoryInit ==
    /\ \E n \in (HistoryMaxLen - MaxOverflow)..HistoryMaxLen :
         /\ completed_tasks_history =
                [k \in 1..n |-> EndedRecord(k, "completed")]
         /\ next_task_id = n + 1
    /\ MemoryIdle
    /\ NoCalls
    /\ task_queue = <<>>
    /\ agents = {}
    /\ agent_obj = [a \in AgentIds |-> NoAgent]
    /\ active_tasks = {}
    /\ unit = [a \in AgentIds |-> NoUnit]
    /\ running = TRUE
    /\ run_pc = "sleep"
    /\ sd_pc = "idle"
    /\ sd_caller = "none"
    /\ sd_gather = {}
    /\ status_key = StatusAbsent
    /\ n_assigned = 0
    /\ n_requeues = 0

\* lines 225-228: one more unit ends, completed or cancelled, and its record
\* is appended
HistoryRecord(status) ==
    /\ next_task_id <= HistoryMaxLen + MaxOverflow
    /\ completed_tasks_history' =
           HistoryAppend(completed_tasks_history,
                         EndedRecord(next_task_id, status))
    /\ next_task_id' = next_task_id + 1
    /\ UNCHANGED <<task_queue, agents, agent_obj, active_tasks, unit, running,
                   run_pc, sd_pc, sd_caller, sd_gather, status_key,
                   n_assigned, n_requeues>>
    /\ UNCHANGED <<backend_type, short_term_memory, backend_client, retrieved,
                   executor,
                   agent_creation_lock, creators, n_shutdowns>>

HistoryNext == \E status \in {"completed", "cancelled"} : HistoryRecord(status)

HistorySpec == HistoryInit /\ [][HistoryNext]_vars

\* ------------------------------------------- the memory system on its own
\* the keys its callers use
UsedKeys == {k \in Keys : k <= MaxKeys}

\* a memory system just constructed over any of the backends: the cache is
\* empty (line 25) and the backend holds what earlier runs stored in it
MemoryInit ==
    /\ backend_type \in BackendTypes
    /\ short_term_memory = [k \in Keys |-> None]
    /\ backend_client \in
           {bc \in [Keys -> {None} \cup
                       {StoredForm(backend_type, v) : v \in Values \cup {None}}] :
                \A k \in Keys \ UsedKeys : bc[k] = None}
    /\ retrieved = NoRetrieve
    /\ executor = [a \in AgentIds |-> NoExec]
    /\ NoCalls
    /\ task_queue = <<>>
    /\ agents = {}
    /\ agent_obj = [a \in AgentIds |-> NoAgent]
    /\ active_tasks = {}
    /\ unit = [a \in AgentIds |-> NoUnit]
    /\ completed_tasks_history = <<>>
    /\ running = FALSE
    /\ run_pc = "not_started"
    /\ sd_pc = "idle"
    /\ sd_caller = "none"
    /\ sd_gather = {}
    /\ status_key = StatusAbsent
    /\ next_task_id = 1
    /\ n_assigned = 0
    /\ n_requeues = 0

\* a caller stores a value (memory.py lines 124-166)
MemStore(key, value, is_short_term, ok) ==
    /\ LET memory == store(backend_type, short_term_memory, backend_client,
                           key, value, is_short_term, ok)
       IN  /\ short_term_memory' = memory.short_term_memory
           /\ backend_client' = memory.backend_client
    /\ UNCHANGED <<task_queue, agents, agent_obj, active_tasks, unit,
                   completed_tasks_history, running, run_pc, sd_pc, sd_caller,
                   sd_gather, status_key, next_task_id, n_assigned, n_requeues,
                   backend_type, retrieved, executor,
                   agent_creation_lock, creators, n_shutdowns>>

\* a caller retrieves a key (memory.py lines 169-230)
MemRetrieve(key, check_long_term_if_missing, ok) ==
    /\ retrieved.calls < MaxRetrieves
    /\ LET r == retrieve(backend_type, short_term_memory, backend_client,
                         key, check_long_term_if_missing, ok)
       IN  /\ short_term_memory' = r.short_term_memory
           /\ retrieved' = [calls |-> retrieved.calls + 1, key |-> key,
                            check |-> check_long_term_if_missing,
                            value |-> r.value, consulted |-> r.consulted]
    /\ UNCHANGED <<task_queue, agents, agent_obj, active_tasks, unit,
                   completed_tasks_history, running, run_pc, sd_pc, sd_caller,
                   sd_gather, status_key, next_task_id, n_assigned, n_requeues,
                   backend_type, backend_client, executor,
                   agent_creation_lock, creators, n_shutdowns>>

MemoryNext ==
    \/ \E key \in UsedKeys, value \in Values \cup {None},
          is_short_term \in BOOLEAN, ok \in BOOLEAN :
            MemStore(key, value, is_short_term, ok)
    \/ \E key \in UsedKeys, check \in BOOLEAN, ok \in BOOLEAN :
            MemRetrieve(key, check, ok)

MemorySpec == MemoryInit /\ [][MemoryNext]_vars

\* ------------------------------------- the tool executor agent on its own
\* executor[a] becomes e; the controller and the memory system stand still
SetExecutor(a, e) ==
    /\ executor' = [executor EXCEPT ![a] = e]
    /\ UNCHANGED <<task_queue, agents, agent_obj, active_tasks, unit,
                   completed_tasks_history, running, run_pc, sd_pc, sd_caller,
                   sd_gather, status_key, next_task_id, n_assigned, n_requeues,
                   backend_type, short_term_memory, backend_client, retrieved,
                   agent_creation_lock, creators, n_shutdowns>>

\* execute_code_safely returns (or raises): the finally of lines 109-116
\* removes the temporary file on the way out
ExecEnds(e, result) ==
    [e EXCEPT !.pc = "done", !.result = result, !.tmp_file = FALSE]

\* process_task is called (tool_executor_agent.py lines 19-38): without
\* code, or with code that is not a string, it returns an error at once;
\* else execute_code_safely writes the temporary file (lines 51-57), which
\* may fail, and awaits create_subprocess_exec (line 63)
ExecStart(a, code, tmp_ok) ==
    /\ executor[a].pc = "idle"
    /\ SetExecutor(a,
           IF code = "none" THEN ExecEnds(executor[a], "no_code_error")
           ELSE IF code = "not_str" THEN ExecEnds(executor[a], "not_str_error")
           ELSE IF ~tmp_ok THEN ExecEnds(executor[a], "tmp_file_error")
           ELSE [executor[a] EXCEPT !.pc = "creating", !.tmp_file = TRUE])

\* lines 63-74: the subprocess is started and communicate() is awaited under
\* wait_for; or create_subprocess_exec raises and lines 101-108 return an
\* error string
ExecSpawned(a, ok) ==
    /\ executor[a].pc = "creating"
    /\ SetExecutor(a,
           IF ok THEN [executor[a] EXCEPT !.pc = "communicate",
                                          !.process = "running"]
           ELSE ExecEnds(executor[a], "spawn_error"))

\* the subprocess finishes by itself
ProcExits(a) ==
    /\ executor[a].pc \in {"communicate", "cancelling"}
    /\ executor[a].process = "running"
    /\ SetExecutor(a, [executor[a] EXCEPT !.process = "exited"])

\* lines 71-93: communicate() has the output of the finished subprocess and
\* the result string is returned.  When the subprocess finishes while
\* wait_for is cancelling communicate(), wait_for may still return its
\* result (asyncio.wait_for returns fut.result() when the cancellation came
\* too late).
ExecCommunicated(a) ==
    /\ executor[a].pc \in {"communicate", "cancelling"}
    /\ executor[a].process = "exited"
    /\ SetExecutor(a, ExecEnds(executor[a], "execution_result"))

\* line 71: execution_timeout elapses with the subprocess still running;
\* wait_for cancels communicate() and waits for the cancellation to be
\* delivered, which takes at least one more turn of the event loop
ExecTimerFires(a) ==
    /\ executor[a].pc = "communicate"
    /\ executor[a].process = "running"
    /\ SetExecutor(a, [executor[a] EXCEPT !.pc = "cancelling"])

\* process.kill(), line 98: a running subprocess is killed; one that has
\* finished in the meantime is left alone while its transport is open
\* (Popen.send_signal polls first) and raises ProcessLookupError once the
\* transport is closed (BaseSubprocessTransport._check_proc)
Kill(process, gone) ==
    IF process = "running" THEN "killed"
    ELSE IF gone THEN "ProcessLookupError" ELSE "no_op"

\* lines 95-100: TimeoutError reaches execute_code_safely, which calls
\* process.kill() and awaits process.wait().  An exception of kill() is
\* raised inside the except clause, so the clauses of lines 101-108 do not
\* catch it: it leaves execute_code_safely and process_task.
ExecTimeout(a, gone) ==
    /\ executor[a].pc = "cancelling"
    /\ LET e == [executor[a] EXCEPT !.timed_out = TRUE]
           kill == Kill(executor[a].process, gone)
       IN  SetExecutor(a,
               IF kill = "killed"
               THEN [e EXCEPT !.pc = "waiting", !.process = "killed"]
               ELSE IF kill = "ProcessLookupError"
               THEN ExecEnds(e, "raised")
               ELSE ExecEnds(e, "timeout_error"))

\* lines 99-100: process.wait() returns once the killed subprocess is gone
ExecWaitReturns(a) ==
    /\ executor[a].pc = "waiting"
    /\ SetExecutor(a, ExecEnds(executor[a], "timeout_error"))

ExecutorNext ==
    \E a \in AgentIds :
        \/ \E code \in {"none", "not_str", "str"}, tmp_ok \in BOOLEAN :
               ExecStart(a, code, tmp_ok)
        \/ \E ok \in BOOLEAN : ExecSpawned(a, ok)
        \/ ProcExits(a)
        \/ ExecCommunicated(a)
        \/ ExecTimerFires(a)
        \/ \E gone \in BOOLEAN : ExecTimeout(a, gone)
        \/ ExecWaitReturns(a)

\* every agent is a ToolExecutorAgent whose process_task is called directly
ExecutorSpec == Init /\ [][ExecutorNext]_vars

\* ------------------------------------- concurrent calls of _create_agent
\* line 78 entered without regard to the holder of the lock
CanAcquireAlways(lock) == TRUE

\* line 78, async with self.agent_creation_lock: the caller goes on only
\* when nobody holds the lock
CanAcquire(lock) == lock = 0

\* the task_info of line 85 for a call made with a hint alone
TaskInfo(c) == TaskDetails(0, creators[c].agent_type, {}, {})

\* the call ends: the result goes to the caller and leaving the async with
\* block (by return or by exception) releases the lock
CreateEnds(c, result, agent_id) ==
    /\ creators' = [creators EXCEPT ![c].pc = "done", ![c].result = result,
                                    ![c].agent = agent_id]
    /\ agent_creation_lock' =
           IF agent_creation_lock = c THEN 0 ELSE agent_creation_lock

\* what the steps of _create_agent leave alone
CreateFrame ==
    UNCHANGED <<task_queue, active_tasks, unit, completed_tasks_history,
                running, run_pc, sd_pc, sd_caller, sd_gather, status_key,
                next_task_id, n_assigned, n_requeues, backend_type,
                short_term_memory, backend_client, retrieved, executor,
                n_shutdowns>>

\* line 76: some coroutine calls _create_agent(agent_type) (task_details
\* is left to its default, the empty dict of line 85)
CreateCall(c, agent_type) ==
    /\ creators[c].pc = "idle"
    /\ creators' = [creators EXCEPT ![c].pc = "waiting",
                                    ![c].agent_type = agent_type]
    /\ UNCHANGED <<agents, agent_obj, agent_creation_lock>>
    /\ CreateFrame

\* line 78: the caller takes the lock
CreateAcquire(c) ==
    /\ creators[c].pc = "waiting"
    /\ CanAcquire(agent_creation_lock)
    /\ agent_creation_lock' = c
    /\ creators' = [creators EXCEPT ![c].pc = "locked"]
    /\ UNCHANGED <<agents, agent_obj>>
    /\ CreateFrame

\* lines 79-81: the capacity check; a full registry ends the call with None
CreateCheck(c) ==
    /\ creators[c].pc = "locked"
    /\ IF AtCapacity
       THEN CreateEnds(c, "None", 0)
       ELSE /\ creators' = [creators EXCEPT ![c].pc = "constructing"]
            /\ UNCHANGED agent_creation_lock
    /\ UNCHANGED <<agents, agent_obj>>
    /\ CreateFrame

\* lines 83-129: the constructor runs and the agent is registered, or the
\* constructor raises and the exception leaves _create_agent
CreateInsert(c, raises) ==
    /\ creators[c].pc = "constructing"
    /\ raises => ConstructorMayRaise(TaskInfo(c))
    /\ IF raises
       THEN /\ CreateEnds(c, "raised", 0)
            /\ UNCHANGED <<agents, agent_obj>>
       ELSE /\ NewAgentId \in AgentIds
            /\ agents' = agents \cup {NewAgentId}
            /\ agent_obj' = [agent_obj EXCEPT ![NewAgentId] =
                   [state |-> "idle", current_task |-> FALSE,
                    has_meta |-> FALSE,
                    class |-> AgentClass(TaskInfo(c)),
                    release |-> "none"]]
            /\ CreateEnds(c, "agent", NewAgentId)
    /\ CreateFrame

\* a controller with some agents registered already and no call begun
CreateInit ==
    /\ MemoryIdle
    /\ NoCalls
    /\ \E n \in 0..max_concurrent_agents :
         /\ agents = 1..n
         /\ agent_obj = [a \in AgentIds |->
                IF a \in 1..n THEN [NoAgent EXCEPT !.state = "idle",
                                                   !.class = "Agent"]
                ELSE NoAgent]
    /\ task_queue = <<>>
    /\ active_tasks = {}
    /\ unit = [a \in AgentIds |-> NoUnit]
    /\ completed_tasks_history = <<>>
    /\ running = TRUE
    /\ run_pc = "sleep"
    /\ sd_pc = "idle"
    /\ sd_caller = "none"
    /\ sd_gather = {}
    /\ status_key = StatusAbsent
    /\ next_task_id = 1
    /\ n_assigned = 0
    /\ n_requeues = 0

CreateNext ==
    \/ \E c \in Callers, agent_type \in RoutingHints :
         CreateCall(c, agent_type)
    \/ \E c \in Callers : CreateAcquire(c)
    \/ \E c \in Callers : CreateCheck(c)
    \/ \E c \in Callers, raises \in BOOLEAN : CreateInsert(c, raises)

\* callers of _create_agent racing for the slots that are left
CreateSpec == CreateInit /\ [][CreateNext]_vars

\* ------------------------------------------- the snapshots of a long run
\* a controller that has been running for a while: its history is full or
\* one short of it, and one more task waits in the queue
StatusInit ==
    /\ MemoryIdle
    /\ NoCalls
    /\ \E n \in (HistoryMaxLen - 1)..HistoryMaxLen :
         /\ completed_tasks_history =
                [k \in 1..n |-> EndedRecord(k, "completed")]
         /\ task_queue = assign_task(<<>>, n + 1,
                TaskDetails(MaxTasks + 1, "default", {}, {}), 0)
         /\ next_task_id = n + 2
    /\ agents = {}
    /\ agent_obj = [a \in AgentIds |-> NoAgent]
    /\ active_tasks = {}
    /\ unit = [a \in AgentIds |-> NoUnit]
    /\ running = TRUE
    /\ run_pc = "sleep"
    /\ sd_pc = "idle"
    /\ sd_caller = "none"
    /\ sd_gather = {}
    /\ status_key = StatusAbsent
    /\ n_assigned = 0
    /\ n_requeues = 0

\* --------------------------------------------- tasks for the agent variants
\* tasks routed to a ToolExecutorAgent (without code, with code) and to a
\* ToolCreatorAgent (without description, with one)
VariantInputs ==
    {TaskDetails(MaxTasks + 1, "tool_executor", {}, {}),
     TaskDetails(MaxTasks + 1, "tool_executor", {"code"}, {}),
     TaskDetails(MaxTasks + 1, "tool_creator", {}, {}),
     TaskDetails(MaxTasks + 1, "tool_creator", {"description"}, {})}

\* a controller before run() is called, with one such task assigned (as
\* main() does, lines 359-383) and one more task to come
VariantInit ==
    /\ MemoryIdle
    /\ NoCalls
    /\ \E details \in VariantInputs :
         task_queue = assign_task(<<>>, MaxTasks, details, 0)
    /\ agents = {}
    /\ agent_obj = [a \in AgentIds |-> NoAgent]
    /\ active_tasks = {}
    /\ unit = [a \in AgentIds |-> NoUnit]
    /\ completed_tasks_history = <<>>
    /\ running = FALSE
    /\ run_pc = "not_started"
    /\ sd_pc = "idle"
    /\ sd_caller = "none"
    /\ sd_gather = {}
    /\ status_key = StatusAbsent
    /\ next_task_id = MaxTasks + 1
    /\ n_assigned = MaxTasks - 1
    /\ n_requeues = 0

\* ------------------------------------------------- the routing on its own
\* the details a task may carry: any hint, any of the routing keys, and a
\* description (when there is one) containing any of the keywords
RoutingInputs ==
    {d \in [work : {1}, agent_type : RoutingHints,
            fields : SUBSET RoutingFields, words : SUBSET Keywords] :
        "description" \in d.fields \/ d.words = {}}

\* a controller whose run() has entered its loop with one task waiting
RoutingInit ==
    /\ MemoryIdle
    /\ NoCalls
    /\ \E details \in RoutingInputs :
         task_queue = assign_task(<<>>, 1, details, 0)
    /\ agents = {}
    /\ agent_obj = [a \in AgentIds |-> NoAgent]
    /\ active_tasks = {}
    /\ unit = [a \in AgentIds |-> NoUnit]
    /\ completed_tasks_history = <<>>
    /\ running = TRUE
    /\ run_pc = "inner"
    /\ sd_pc = "idle"
    /\ sd_caller = "none"
    /\ sd_gather = {}
    /\ status_key = StatusAbsent
    /\ next_task_id = 2
    /\ n_assigned = 1
    /\ n_requeues = 0

\* lines 143-164: the dispatcher routes the task
RoutingNext == DispatchOne \/ DispatchRaise

RoutingSpec == RoutingInit /\ [][RoutingNext]_vars

\* every step of the controller once run() is in its loop
StatusNext ==
    \/ \E hint \in AgentTypeHints : AssignTask(hint)
    \/ DispatchOne
    \/ DispatchRequeue
    \/ DispatchRaise
    \/ RunError
    \/ InnerExit
    \/ RunWake
    \/ \E a \in AgentIds : UnitStart(a)
    \/ \E a \in AgentIds, ok \in BOOLEAN : UnitFinish(a, ok)
    \/ \E a \in AgentIds : UnitCancelled(a)
    \/ \E a \in AgentIds : HandleCompletion(a)
    \/ ShutdownCall
    \/ RunCancelled
    \/ ShutdownAfterGather
    \/ ShutdownAfterRelease

\* the whole controller, from the middle of a long run
StatusSpec == StatusInit /\ [][StatusNext]_vars

\* the whole controller, with a task for a ToolExecutorAgent or a
\* ToolCreatorAgent
VariantSpec == VariantInit /\ [][Next]_vars

\* The units make progress whenever the event loop is free to run them, the
\* dispatcher and a begun shutdown whenever they can; arrivals of tasks and
\* of a shutdown or cancellation request are left to the environment.
FairSpec ==
    /\ Spec
    /\ WF_vars(RunStart \/ DispatchOne \/ DispatchRequeue \/ InnerExit
                 \/ RunWake \/ RunError)
    /\ WF_vars(ShutdownAfterGather \/ ShutdownAfterRelease)
    /\ \A a \in AgentIds :
         /\ SF_vars(UnitStart(a))
         /\ SF_vars(\E ok \in BOOLEAN : UnitFinish(a, ok))
         /\ SF_vars(UnitCancelled(a))
         /\ SF_vars(HandleCompletion(a))

\* The dispatcher is inside its inner loop with a task to route, a free
\* in-flight slot and a full registry.  No step changes that: the refused
\* routing puts the task back, and nothing else runs before the sleep.
Spinning == run_pc = "inner" /\ LoopCond /\ AtCapacity
SpinIsClosed == [][Spinning => Spinning']_vars

\* ------------------------------------------------------------------ claims
Works == 1..MaxTasks
RetryCounts == 0..max_task_retries

\* one attempt of a piece of work: the work of the details and the retry_count
InQueue(w, rc) ==
    \E i \in 1..Len(task_queue) :
        task_queue[i].details.work = w /\ task_queue[i].retry_count = rc

UnitsOf(w, rc) ==
    {a \in AgentIds : /\ unit[a].pc # "none"
                      /\ unit[a].meta.details.work = w
                      /\ unit[a].meta.retry_count = rc}

HistoryOf(w, rc) ==
    {i \in 1..Len(completed_tasks_history) :
        /\ completed_tasks_history[i].details.work = w
        /\ completed_tasks_history[i].retry_count = rc}

TerminalStatus == {"completed", "error", "cancelled"}

\* C1: in every reachable state the number of agents in the registry is at
\* most max_concurrent_agents.
C1_ConcurrencyBound == Cardinality(agents) <= max_concurrent_agents

\* the registry is full and a routing attempt has been refused
C1_Witness ==
    /\ Cardinality(agents) = max_concurrent_agents
    /\ n_requeues > 0

\* C2: unless the controller is shut down, every task put in the queue is
\* eventually dispatched and then has exactly one entry, with a terminal
\* status, in completed_tasks_history.
C2_NoTaskLoss ==
    \A w \in Works, rc \in RetryCounts :
        InQueue(w, rc) ~>
            \/ sd_pc # "idle"
            \/ /\ UnitsOf(w, rc) # {}
               /\ Cardinality(HistoryOf(w, rc)) = 1
               /\ \A i \in HistoryOf(w, rc) :
                    completed_tasks_history[i].status \in TerminalStatus

\* the units that worked on w, whatever the retry_count
AttemptsOf(w) ==
    {a \in AgentIds : unit[a].pc # "none" /\ unit[a].meta.details.work = w}

QueuedCopies(w) ==
    {i \in 1..Len(task_queue) : task_queue[i].details.work = w}

\* C3: unless the controller is shut down or one of its attempts does not
\* fail, a task whose attempt has failed comes to be dispatched
\* max_task_retries + 1 times in total and is then not in the queue again.
C3_RetryBound ==
    \A w \in Works :
        (\E a \in AttemptsOf(w) : unit[a].reported_state = "error") ~>
            \/ sd_pc # "idle"
            \/ \E a \in AttemptsOf(w) :
                 unit[a].pc = "done" /\ unit[a].reported_state # "error"
            \/ /\ Cardinality(AttemptsOf(w)) = max_task_retries + 1
               /\ QueuedCopies(w) = {}

\* C4: the history entry of an attempt whose agent ended in state error with
\* the retry budget used up carries a failure status, not completed.
C4_FailureStatus ==
    \A a \in AgentIds :
        (/\ unit[a].pc = "done"
         /\ unit[a].reported_state = "error"
         /\ unit[a].meta.retry_count = max_task_retries)
        => \A i \in 1..Len(completed_tasks_history) :
             completed_tasks_history[i].task_id = unit[a].meta.task_id
             => completed_tasks_history[i].status = "error"

\* every task_id held anywhere in the controller
KnownTaskIds ==
    {task_queue[i].task_id : i \in 1..Len(task_queue)}
    \cup {unit[a].meta.task_id : a \in {b \in AgentIds : unit[b].pc # "none"}}
    \cup {completed_tasks_history[i].task_id :
              i \in 1..Len(completed_tasks_history)}
    \cup 1..(next_task_id - 1)

\* the retries the completion handler has made for w so far
RetriesOf(w) ==
    {a \in AttemptsOf(w) : unit[a].decision = "retried"}

\* the completion handler of a runs in this step and re-enqueues
RetryStep(a) ==
    /\ unit[a].handled = 0
    /\ unit'[a].handled = 1
    /\ unit'[a].decision = "retried"

\* C5: a re-enqueue by the completion handler puts one record at the head of
\* the queue whose task_id was never used before, whose details are those of
\* the failed attempt, and whose retry_count is the number of retries made
\* for that work so far.
C5_RetryIdentity ==
    [][\A a \in AgentIds :
         RetryStep(a) =>
           /\ Len(task_queue') = Len(task_queue) + 1
           /\ Tail(task_queue') = task_queue
           /\ Head(task_queue').task_id \notin KnownTaskIds
           /\ Head(task_queue').details = unit[a].meta.details
           /\ Head(task_queue').status = "pending"
           /\ Head(task_queue').retry_count = unit[a].meta.retry_count + 1
           /\ Head(task_queue').retry_count
                = Cardinality(RetriesOf(unit[a].meta.details.work)')]_vars

\* a retry is in the queue, made from a failed attempt
C5_Witness ==
    \E a \in AgentIds :
        /\ unit[a].decision = "retried"
        /\ task_queue # <<>>
        /\ Head(task_queue) = unit[a].requeued
        /\ Head(task_queue).retry_count = unit[a].meta.retry_count + 1

AllRecords ==
    {task_queue[i] : i \in 1..Len(task_queue)}
    \cup {unit[a].meta : a \in {b \in AgentIds : unit[b].pc # "none"}}
    \cup {completed_tasks_history[i] : i \in 1..Len(completed_tasks_history)}

\* C6: every task record, in the queue, in flight or in history, has a
\* retry_count between 0 and max_task_retries, and the completion handler
\* does not re-enqueue a failed attempt whose retry_count is max_task_retries.
C6_RetryCountBounded ==
    /\ \A r \in AllRecords : r.retry_count \in 0..max_task_retries
    /\ \A a \in AgentIds :
         (/\ unit[a].handled > 0
          /\ unit[a].reported_state = "error"
          /\ unit[a].meta.retry_count = max_task_retries)
         => /\ unit[a].decision # "retried"
            /\ unit[a].requeued = NoTask

\* a failed attempt with the budget used up has been handled
C6_Witness ==
    \E a \in AgentIds :
        /\ unit[a].reported_state = "error"
        /\ unit[a].meta.retry_count = max_task_retries
        /\ unit[a].decision = "gave_up"

\* C7: a unit cancelled inside process_task leaves its agent in state
\* cancelled, ends as a cancelled unit with the status cancelled recorded,
\* and its completion handler re-enqueues nothing: no record of the work is
\* in the queue and no retry_count has grown.
C7_CancellationPropagates ==
    \A a \in AgentIds :
        (unit[a].started /\ unit[a].must_cancel /\ unit[a].pc = "done")
        => /\ unit[a].reported_state = "cancelled"
           /\ unit[a].outcome = "cancelled"
           /\ unit[a].meta.status = "cancelled"
           /\ unit[a].decision \in {"none", "no_retry", "unmapped"}
           /\ unit[a].requeued = NoTask
           /\ QueuedCopies(unit[a].meta.details.work) = {}
           /\ \A b \in AttemptsOf(unit[a].meta.details.work) :
                unit[b].meta.retry_count <= unit[a].meta.retry_count

\* a unit was cancelled inside process_task, its handler has run and the
\* awaiting shutdown has resumed
C7_Witness ==
    \E a \in AgentIds :
        /\ unit[a].started
        /\ unit[a].outcome = "cancelled"
        /\ unit[a].decision = "no_retry"
        /\ sd_pc = "done"

\* the live records of a piece of work: in the queue or in flight
LiveCopies(w) ==
    Cardinality(QueuedCopies(w))
    + Cardinality({a \in AttemptsOf(w) : a \in active_tasks})

\* the handler has settled w for good: no retry was made for its last attempt
FinallyDone(w) ==
    \E a \in AttemptsOf(w) : unit[a].decision \in {"gave_up", "no_retry"}

\* shutdown has dropped the in-flight map (line 293)
ClearedByShutdown == sd_pc \in {"release", "done"}

\* run() is in its loop (or not started, or over), not in an except clause
\* on its way through shutdown
InDispatcher == run_pc \notin {"raised", "shutdown"}

\* C8: while the dispatcher is in its loop, at its yield point and between
\* the iterations alike, every piece of work that was assigned has exactly
\* one live record, in the queue or in flight, until the handler settles it
\* for good (then it has none) or shutdown clears the controller; it never
\* has two.
C8_OneLiveRecord ==
    \A w \in 1..n_assigned :
        /\ LiveCopies(w) <= 1
        /\ FinallyDone(w) => LiveCopies(w) = 0
        /\ (InDispatcher /\ ~FinallyDone(w) /\ ~ClearedByShutdown)
             => LiveCopies(w) = 1

\* after a failure, a retry and a refused routing the work is still there once
C8_Witness ==
    \E w \in 1..n_assigned :
        /\ RetriesOf(w) # {}
        /\ n_requeues > 0
        /\ ~FinallyDone(w)
        /\ ~ClearedByShutdown
        /\ Cardinality(QueuedCopies(w)) = 1

\* C9: the completion handler runs once per finished unit, never twice, and
\* one failed attempt leaves at most one record with the next retry_count.
C9_HandlerOnce ==
    \A a \in AgentIds :
        /\ unit[a].handled <= 1
        /\ unit[a].pc = "done" => unit[a].handled + unit[a].cb_pending = 1
        /\ unit[a].pc # "done" => unit[a].handled = 0
        /\ unit[a].pc # "none" =>
             Cardinality({i \in QueuedCopies(unit[a].meta.details.work) :
                            task_queue[i].retry_count
                              = unit[a].meta.retry_count + 1})
             + Cardinality(UnitsOf(unit[a].meta.details.work,
                                   unit[a].meta.retry_count + 1)) <= 1

\* two units were done at the same time, one failed and was retried, the
\* other was cancelled by shutdown, and both handlers have run
C9_Witness ==
    \E a, b \in AgentIds :
        /\ a # b
        /\ unit[a].handled = 1 /\ unit[a].decision = "retried"
        /\ unit[b].handled = 1 /\ unit[b].outcome = "cancelled"
        /\ a \in sd_gather /\ b \in sd_gather

\* C10: when shutdown begins it requests the cancellation of every unit in
\* the in-flight map that is not done, and when it returns the in-flight
\* map, the registry and the queue are empty and every one of those units is
\* done, as a cancelled unit if the request reached it, its handler run.
C10_ShutdownDrains ==
    [][/\ (sd_pc = "idle" /\ sd_pc' # "idle") =>
            /\ sd_gather' = active_tasks
            /\ \A a \in active_tasks :
                 unit[a].pc # "done" => unit'[a].must_cancel
       /\ (sd_pc # "done" /\ sd_pc' = "done") =>
            /\ active_tasks' = {}
            /\ agents' = {}
            /\ task_queue' = <<>>
            /\ \A a \in sd_gather' :
                 /\ unit'[a].pc = "done"
                 /\ unit'[a].must_cancel => unit'[a].outcome = "cancelled"
                 /\ unit'[a].handled = 1]_vars

\* shutdown has returned after cancelling two units in flight
C10_Witness ==
    /\ sd_pc = "done"
    /\ Cardinality(sd_gather) = 2
    /\ \A a \in sd_gather : unit[a].must_cancel /\ unit[a].outcome = "cancelled"

\* C11: once run() has ended, by its clean exit, by its cancellation or by
\* an error followed by shutdown, the status key is absent from the memory
\* store, and it stays absent: nothing publishes a snapshot afterwards.
C11_StatusKeyCleared == run_pc = "exited" => status_key = StatusAbsent

\* run() has ended through an except clause and the shutdown it awaited,
\* with units that had run
C11_Witness ==
    /\ run_pc = "exited"
    /\ sd_caller = "run"
    /\ sd_pc = "done"
    /\ \E a \in AgentIds : unit[a].pc = "done"

\* C12: once shutdown has set the running flag to false, no step launches a
\* new unit or registers a new agent, whatever the run loop is doing and
\* whatever is left in the queue.
C12_NoDispatchAfterShutdown ==
    [][sd_pc # "idle" =>
         /\ agents' \subseteq agents
         /\ \A a \in AgentIds : unit[a].pc = "none" => unit'[a].pc = "none"]_vars

\* Once shutdown awaits the release of the agents' resources it returns:
\* the run loop cannot be inside its inner loop then.
ReleaseEnds == (sd_pc = "release") ~> (sd_pc = "done")

\* C13: shutdown goes on to its end when a cancelled unit raises out of the
\* first gather or an agent's shutdown_browser fails in the second: the step
\* that ends either await never leaves shutdown with an exception, and the
\* step that ends shutdown has cleared the in-flight map, the registry and
\* the queue.
C13_ShutdownSurvivesFailures ==
    [][/\ sd_pc' # "raised"
       /\ (sd_pc = "gather" /\ sd_pc' # "gather") =>
            /\ sd_pc' \in {"release", "done"}
            /\ active_tasks' = {}
       /\ (sd_pc = "release" /\ sd_pc' # "release") => sd_pc' = "done"
       /\ (sd_pc # "done" /\ sd_pc' = "done") =>
            agents' = {} /\ task_queue' = <<>>]_vars

\* shutdown has returned after a unit it cancelled raised CancelledError and
\* the shutdown_browser of an agent failed
C13_Witness ==
    /\ sd_pc = "done"
    /\ \E a \in sd_gather : unit[a].outcome = "cancelled"
    /\ \E a \in AgentIds : agent_obj[a].release = "failed"

\* the dispatcher has just been refused an agent for the record at the head
RoutingRefused == n_requeues' = n_requeues + 1

\* C14: after a routing refused for lack of capacity the dispatcher does not
\* go round its inner loop again: it is not left in front of another
\* dequeue, with the loop condition true, before it has slept.
C14_YieldsAfterRefusal ==
    [][RoutingRefused => ~(run_pc' = "inner" /\ LoopCond')]_vars

\* the records of the queue q that carry the details and retry_count of task
CopiesIn(q, task) ==
    {i \in 1..Len(q) : /\ q[i].details = task.details
                       /\ q[i].retry_count = task.retry_count}

\* C15: a dispatch attempt made with the registry at max_concurrent_agents
\* gets no agent: the registry, the in-flight map and the units are
\* unchanged, and the dequeued record is back in the queue, pending, with the
\* same details and the same retry_count, the queue as long as before.
C15_RefusedTaskKept ==
    [][(run_pc = "inner" /\ LoopCond
          /\ Cardinality(agents) >= max_concurrent_agents) =>
         /\ RoutingRefused
         /\ agents' = agents
         /\ active_tasks' = active_tasks
         /\ unit' = unit
         /\ agent_obj' = agent_obj
         /\ Len(task_queue') = Len(task_queue)
         /\ Cardinality(CopiesIn(task_queue', Head(task_queue)))
              = Cardinality(CopiesIn(task_queue, Head(task_queue)))
         /\ \A i \in CopiesIn(task_queue', Head(task_queue)) :
              task_queue'[i].status = "pending"]_vars

\* a retry made by the completion handler was refused an agent and is in the
\* queue again under a new task_id, its retry_count as the handler set it
C15_Witness ==
    /\ n_requeues > 0
    /\ \E a \in AgentIds, i \in 1..Len(task_queue) :
         /\ unit[a].decision = "retried"
         /\ task_queue[i].details = unit[a].requeued.details
         /\ task_queue[i].retry_count = unit[a].requeued.retry_count
         /\ task_queue[i].task_id # unit[a].requeued.task_id

\* C16: when the routing of a dequeued record fails by an exception of the
\* agent's constructor, the record is in the queue again with its details
\* and retry_count, the run loop goes on and shutdown is not begun.
C16_DispatchFailureRequeues ==
    [][/\ (run_pc = "inner" /\ run_pc' = "raised") =>
            CopiesIn(task_queue', Head(task_queue)) # {}
       /\ run_pc = "raised" =>
            /\ sd_pc' = "idle"
            /\ running'
            /\ run_pc' \in {"inner", "sleep"}]_vars

\* the process_task of a's unit raises an ordinary error in this step
FailureStep(a) ==
    unit[a].pc = "processing" /\ unit'[a].pc = "done" /\ unit'[a].error

\* the completion handler of a's failed unit runs in this step
FailureHandled(a) ==
    unit[a].error /\ unit'[a].handled = unit[a].handled + 1

\* C17: a process_task that raises an ordinary error ends its unit without
\* an exception, leaves the agent in state error and an entry in history,
\* and neither that step nor the unit's completion handler stops the run
\* loop, begins shutdown or takes a record out of the queue.
C17_FailureStaysLocal ==
    [][\A a \in AgentIds :
         /\ FailureStep(a) =>
              /\ unit'[a].outcome = "returned"
              /\ agent_obj'[a].state = "error"
              /\ completed_tasks_history' # completed_tasks_history
              /\ completed_tasks_history'[Len(completed_tasks_history')].task_id
                   = unit[a].meta.task_id
              /\ task_queue' = task_queue
              /\ <<running, run_pc, sd_pc>>' = <<running, run_pc, sd_pc>>
         /\ FailureHandled(a) =>
              /\ \A i \in 1..Len(task_queue) :
                   \E j \in 1..Len(task_queue') : task_queue'[j] = task_queue[i]
              /\ <<running, run_pc, sd_pc>>' = <<running, run_pc, sd_pc>>]_vars

\* after a failure the run loop has dispatched the retry and is still
\* running, no shutdown begun
C17_Witness ==
    \E a, b \in AgentIds :
        /\ unit[a].error
        /\ unit[a].decision = "retried"
        /\ unit[b].pc # "none"
        /\ unit[b].meta.task_id = unit[a].requeued.task_id
        /\ running
        /\ sd_pc = "idle"

\* the status of a's record may change from s to t
StatusMove(s, t) ==
    \/ t = s
    \/ s = "pending" /\ t = "running"
    \/ s = "running" /\ t \in TerminalStatus

\* C18: the status of a task record only moves pending -> running -> one of
\* completed, error, cancelled: the records in the queue are pending, a
\* record becomes running in the step that launches its unit, taken pending
\* from the head of the queue, and a record with a terminal status, in
\* flight or in history, never changes again.
C18_StatusTransitions ==
    [][/\ \A i \in 1..Len(task_queue) : task_queue[i].status = "pending"
       /\ \A a \in AgentIds :
            IF unit[a].pc = "none"
            THEN unit'[a].pc # "none" =>
                   /\ task_queue # <<>>
                   /\ Head(task_queue).status = "pending"
                   /\ unit'[a].meta = [Head(task_queue) EXCEPT !.status = "running"]
            ELSE /\ StatusMove(unit[a].meta.status, unit'[a].meta.status)
                 /\ unit'[a].meta.status # "pending"
                 /\ unit'[a].meta.task_id = unit[a].meta.task_id
       /\ \A i \in 1..Len(completed_tasks_history) :
            /\ completed_tasks_history[i].status \in TerminalStatus
            /\ Len(completed_tasks_history') >= i
            /\ completed_tasks_history'[i] = completed_tasks_history[i]]_vars

\* one record has ended completed and another cancelled, both are in
\* history, and shutdown has returned
C18_Witness ==
    /\ sd_pc = "done"
    /\ \E i, j \in 1..Len(completed_tasks_history) :
         /\ completed_tasks_history[i].status = "completed"
         /\ completed_tasks_history[j].status = "cancelled"

\* C19: the history never holds more than 50 entries; an append to a
\* history of 50 evicts the first (oldest) entry and keeps the others in
\* their order, the new entry last, and an append to a shorter history evicts
\* nothing.
C19_HistoryBound ==
    [][/\ Len(completed_tasks_history) <= 50
       /\ Len(completed_tasks_history') <= 50
       /\ completed_tasks_history' # completed_tasks_history =>
            IF Len(completed_tasks_history) = 50
            THEN /\ Len(completed_tasks_history') = 50
                 /\ \A i \in 1..49 :
                      completed_tasks_history'[i] = completed_tasks_history[i + 1]
                 /\ completed_tasks_history'[50].task_id = next_task_id
            ELSE /\ Len(completed_tasks_history')
                      = Len(completed_tasks_history) + 1
                 /\ \A i \in 1..Len(completed_tasks_history) :
                      completed_tasks_history'[i] = completed_tasks_history[i]]_vars

\* the history is full and its oldest entries have been evicted
C19_Witness ==
    /\ Len(completed_tasks_history) = 50
    /\ completed_tasks_history[1].task_id > 2
    /\ completed_tasks_history[50].task_id
         = completed_tasks_history[1].task_id + 49

\* the units launched for fresh records; agent ids are given in the order of
\* the dispatches and work numbers in the order of the assign_task calls
FreshUnits == {a \in AgentIds : unit[a].pc # "none" /\ unit[a].meta.retry_count = 0}

\* After a routing refused for lack of capacity no unit is launched any more.
NoDispatchAfterRefusal ==
    [][n_requeues > 0 =>
         \A a \in AgentIds : unit[a].pc = "none" => unit'[a].pc = "none"]_vars

RetryOrdered(q) ==
    \A i, j \in 1..Len(q) :
        i < j =>
            /\ ~(q[i].retry_count = 0 /\ q[j].retry_count > 0)
            /\ (q[i].retry_count > 0 /\ q[j].retry_count > 0
                    => q[i].task_id > q[j].task_id)

\* the agents whose unit is created by this step
Launched == {a \in AgentIds : unit[a].pc = "none" /\ unit'[a].pc = "scheduled"}

\* C21: a retry record is inserted at the head of the queue, so it is taken
\* before every fresh record already waiting, and of several waiting retry
\* records the last inserted is taken first; the dispatcher always takes the
\* record at the head.
C21_RetryAtHead ==
    [][/\ RetryOrdered(task_queue')
       /\ \A a \in Launched :
              /\ task_queue # <<>>
              /\ unit'[a].meta.task_id = Head(task_queue).task_id]_vars

\* a retry record inserted after a fresh record was waiting has been taken
\* while that fresh record is still in the queue
C21_Witness ==
    \E a \in AgentIds :
        /\ unit[a].pc = "scheduled"
        /\ unit[a].meta.retry_count > 0
        /\ \E i \in 1..Len(task_queue) :
               /\ task_queue[i].retry_count = 0
               /\ task_queue[i].task_id < unit[a].meta.task_id

\* ---------------------------------------------------------------- C22
\* the agents that are handed a unit by this step
HandedUnit ==
    {a \in AgentIds : /\ unit'[a].pc = "scheduled"
                      /\ \/ unit[a].pc # "scheduled"
                         \/ unit'[a].meta # unit[a].meta}

\* C22: no agent instance has two units in flight at once: every unit goes
\* to an agent constructed for it in the same step, which had no unit, did
\* not exist before and starts idle; an agent whose state is running is
\* never handed a task.
C22_OneUnitPerAgent ==
    [][\A a \in HandedUnit :
           /\ unit[a].pc = "none"
           /\ agent_obj[a].class = "none"
           /\ agent_obj[a].state # "running"
           /\ agent_obj'[a].state = "idle"
           /\ a \notin agents /\ a \notin active_tasks]_vars

\* a second unit is launched while the agent of the first is running
C22_Witness ==
    \E a, b \in AgentIds :
        /\ a # b
        /\ agent_obj[a].state = "running" /\ unit[a].pc = "processing"
        /\ unit[b].pc = "scheduled" /\ agent_obj[b].state = "idle"

\* ---------------------------------------------------------------- C23
\* the changes of an agent's state the life cycle allows
AllowedStateMove(s, t) ==
    \/ s = t
    \/ s = "none" /\ t = "idle"
    \/ s = "idle" /\ t = "running"
    \/ s = "running" /\ t \in {"finished", "error", "cancelled"}
    \/ s # "stopped" /\ t = "stopped"

\* C23: an agent's state only moves idle -> running -> finished, error or
\* cancelled, or to stopped from any state; a stopped agent never changes
\* state again and starts no task.
C23_AgentLifeCycle ==
    [][\A a \in AgentIds :
           /\ AllowedStateMove(agent_obj[a].state, agent_obj'[a].state)
           /\ agent_obj[a].state = "stopped"
                  => ~(unit[a].pc = "scheduled" /\ unit'[a].pc = "processing")]_vars

\* ------------------------------------------------------- C24, C25, C26
\* receive_task of agent a ends in this step: returning after process_task
\* returned a result, returning after process_task raised, or re-raising
\* the cancellation
ReceiveTaskEnds(a) == unit[a].pc = "processing" /\ unit'[a].pc = "done"
ReturnsResult(a) ==
    ReceiveTaskEnds(a) /\ unit'[a].outcome = "returned" /\ ~unit'[a].error
ReturnsAfterError(a) ==
    ReceiveTaskEnds(a) /\ unit'[a].outcome = "returned" /\ unit'[a].error
ReRaisesCancellation(a) ==
    ReceiveTaskEnds(a) /\ unit'[a].outcome = "cancelled"

\* the entry <agent_id>_last_result of agent a, in the cache and the backend
LastResultIs(a, v) ==
    short_term_memory'[a] = v /\ backend_client'[a] = StoredForm(backend_type, v)

\* C24: when process_task returns a result, receive_task ends with the
\* agent finished and current_task empty, process_task has been called
\* exactly once, with the details of the task, and the result is stored in
\* memory under <agent_id>_last_result.
C24_SuccessContract ==
    [][\A a \in AgentIds :
           ReturnsResult(a) =>
               /\ agent_obj'[a].state = "finished"
               /\ ~agent_obj'[a].current_task
               /\ unit'[a].processed = <<unit[a].meta.details>>
               /\ LastResultIs(a, ProcessResult)]_vars

\* process_task has returned its result and the result is in memory
C24_Witness ==
    \E a \in AgentIds :
        /\ unit[a].pc = "done" /\ unit[a].outcome = "returned" /\ ~unit[a].error
        /\ agent_obj[a].state = "finished"
        /\ short_term_memory[a] = ProcessResult

\* C25: when process_task raises an ordinary error, receive_task returns
\* without propagating it, the agent ends in state error with current_task
\* empty, and the error message is stored in memory under
\* <agent_id>_last_result.
C25_ErrorContract ==
    [][\A a \in AgentIds :
           ReturnsAfterError(a) =>
               /\ agent_obj'[a].state = "error"
               /\ ~agent_obj'[a].current_task
               /\ unit'[a].meta.status = "completed"
               /\ LastResultIs(a, ErrorMessage)]_vars

\* process_task has raised, receive_task has returned and the message is in
\* memory
C25_Witness ==
    \E a \in AgentIds :
        /\ unit[a].pc = "done" /\ unit[a].outcome = "returned" /\ unit[a].error
        /\ agent_obj[a].state = "error"
        /\ short_term_memory[a] = ErrorMessage

\* C26: whichever way receive_task ends (success, ordinary failure,
\* cancellation), by then the outcome has been reported to the memory
\* system, which holds an entry for the agent, and current_task is cleared.
C26_OutcomeReported ==
    [][\A a \in AgentIds :
           ReceiveTaskEnds(a) =>
               /\ ~agent_obj'[a].current_task
               /\ short_term_memory'[a] # None
               /\ backend_client'[a] # None]_vars

\* the part of C26 that holds for the cancellation as well: current_task is
\* cleared, and the two other outcomes have left their entry in memory
FinalizerRuns ==
    [][\A a \in AgentIds :
           ReceiveTaskEnds(a) =>
               /\ ~agent_obj'[a].current_task
               /\ ~ReRaisesCancellation(a) => short_term_memory'[a] # None]_vars

\* ---------------------------------------------------------------- C27
\* the rules of the claim in their order, each a condition on the details
\* and the class it gives; the last one always applies
RoutingRules(d) ==
    << <<"url" \in d.fields, "BrowserAgent">>,
       <<"description" \in d.fields /\ "create" \in d.words, "ToolCreatorAgent">>,
       <<"code" \in d.fields \/ "code_key" \in d.fields, "ToolExecutorAgent">>,
       <<"description" \in d.fields
            /\ ("find" \in d.words \/ "research" \in d.words
                    \/ "gather" \in d.words), "InfoHunterAgent">>,
       <<TRUE, "Agent">> >>

FirstMatch(d) ==
    LET rules == RoutingRules(d)
        i == CHOOSE i \in 1..Len(rules) :
                 rules[i][1] /\ \A j \in 1..(i - 1) : ~rules[j][1]
    IN  rules[i][2]

\* C27: for a task whose hint is default the agent constructed has the
\* class of the first rule, in the order url, 'create', code or code_key,
\* 'find'/'research'/'gather', generic, that the task's details match.
C27_FirstMatchWins ==
    [][\A a \in Launched :
           Head(task_queue).details.agent_type = "default"
               => agent_obj'[a].class = FirstMatch(Head(task_queue).details)]_vars

\* a task without a hint that matches the second, third and fourth rule has
\* been given a tool-creator agent
C27_Witness ==
    \E a \in AgentIds :
        /\ unit[a].pc = "scheduled"
        /\ unit[a].meta.details.agent_type = "default"
        /\ unit[a].meta.details.fields = {"description", "code"}
        /\ {"create", "find"} \subseteq unit[a].meta.details.words
        /\ agent_obj[a].class = "ToolCreatorAgent"

\* ---------------------------------------------------------------- C28
\* run() leaves its main loop in this step by the break of line 177 or by
\* the loop condition of line 140, not by an exception
LeavesMainLoop ==
    /\ run_pc \in {"inner", "sleep"}
    /\ run_pc' = "exited"
    /\ sd_pc' = sd_pc

\* C28: run() leaves its main loop only when the running flag is false, no
\* unit is in flight and the task queue is empty; while the flag is true it
\* does not leave.
C28_ExitOnlyWhenDrained ==
    [][LeavesMainLoop =>
           /\ ~running
           /\ active_tasks = {}
           /\ task_queue = <<>>]_vars

\* the part of C28 that holds: the loop is left only with the flag false and
\* nothing in flight
ExitOnlyWhenStopped ==
    [][LeavesMainLoop => ~running /\ active_tasks = {}]_vars

\* ---------------------------------------------------------------- C29
\* this step is a call of retrieve
RetrieveStep == retrieved'.calls = retrieved.calls + 1

\* C29: retrieve returns the cached value whenever the cache holds one for
\* the key, without reading the backend and changing nothing; it reads the
\* backend only on a miss with check_long_term_if_missing true; and a
\* value it finds there is in the cache when it is returned.
C29_CacheFirst ==
    [][RetrieveStep =>
           LET key == retrieved'.key
           IN  /\ short_term_memory[key] # None
                   => /\ retrieved'.value = short_term_memory[key]
                      /\ ~retrieved'.consulted
                      /\ short_term_memory' = short_term_memory
               /\ retrieved'.consulted
                   => short_term_memory[key] = None /\ retrieved'.check
               /\ retrieved'.consulted /\ retrieved'.value # None
                   => short_term_memory'[key] = retrieved'.value
               /\ backend_client' = backend_client]_vars

\* a retrieve has missed the cache, read the backend, found a value there
\* (one the backend holds in another form than the caller gets it) and left
\* it in the cache
C29_Witness ==
    /\ retrieved.consulted
    /\ retrieved.value # None
    /\ short_term_memory[retrieved.key] = retrieved.value
    /\ backend_client[retrieved.key] # retrieved.value


\* ---------------------------------------------------------------- C30
\* C30: when the subprocess has not finished within execution_timeout, the
\* agent kills it, waits for it, and process_task returns the timeout error
\* string; it does not raise.
C30_TimeoutGivesErrorResult ==
    \A a \in AgentIds :
        executor[a].timed_out /\ executor[a].pc = "done"
            => /\ executor[a].result = "timeout_error"
               /\ executor[a].process \in {"killed", "exited"}

\* the part of C30 that holds: a subprocess still running when the timeout
\* is handled is killed and waited for, the error string is returned, and
\* the temporary file is removed on every path
TimeoutOfRunningProcess ==
    \A a \in AgentIds :
        /\ executor[a].pc = "waiting" => executor[a].process = "killed"
        /\ executor[a].process = "killed" /\ executor[a].pc = "done"
               => executor[a].result = "timeout_error"
        /\ executor[a].pc = "done" => ~executor[a].tmp_file

\* ---------------------------------------------------------------- C31
\* the units ever dispatched
Dispatched == {a \in AgentIds : unit[a].pc # "none"}

\* shutdown() reaches its last two lines (310-311) in this step
ShutdownClears == sd_pc # "done" /\ sd_pc' = "done"

\* C31: an agent leaves the registry only when shutdown clears it, never
\* when its unit completes; so until shutdown has cleared the registry at
\* most max_concurrent_agents units have ever been dispatched, however many
\* tasks were enqueued.
C31_RegistryOnlyGrows ==
    [][/\ agents \ agents' # {} => ShutdownClears
       /\ sd_pc' # "done" =>
              /\ Dispatched' \subseteq agents'
              /\ Cardinality(Dispatched') <= max_concurrent_agents]_vars

\* both slots were used, both units and their handlers are over, a task is
\* waiting, and nothing has been dispatched for it
C31_Witness ==
    /\ sd_pc = "idle"
    /\ Cardinality(Dispatched) = max_concurrent_agents
    /\ \A a \in Dispatched : unit[a].pc = "done" /\ unit[a].handled > 0
    /\ active_tasks = {}
    /\ task_queue # <<>>
    /\ agents = Dispatched

\* ---------------------------------------------------------------- C32
\* the history holds the entry of agent a's unit
InHistory(a) ==
    /\ unit[a].pc # "none"
    /\ \E i \in 1..Len(completed_tasks_history) :
           completed_tasks_history[i].task_id = unit[a].meta.task_id

\* C32: the entry of a finished unit is appended to the history after the
\* completion handler has decided about the unit (retry, give up, nothing
\* to retry), not before: an entry in the history has its decision made.
C32_HistoryAfterDecision ==
    \A a \in AgentIds : InHistory(a) => unit[a].decision # "none"

\* what the code does instead: whenever the handler decides about a unit
\* that ran, the unit's entry is in the history already
DecisionAfterHistory ==
    [][\A a \in AgentIds :
           unit[a].decision = "none" /\ unit'[a].decision # "none"
               /\ unit[a].started
               => InHistory(a)]_vars

\* ---------------------------------------------------------------- C33
\* the callers of _create_agent that have called, and those that got an agent
Called == {c \in Callers : creators[c].pc # "idle"}
Succeeded == {c \in Callers : creators[c].result = "agent"}
\* the slots that were free before any of the calls registered its agent
FreeAtStart ==
    max_concurrent_agents - (Cardinality(agents) - Cardinality(Succeeded))

\* C33: whatever the interleaving of two or more concurrent _create_agent
\* calls, the calls that return an agent are at most the slots free when
\* they started, each with an agent of its own; with one slot left, once
\* they all have ended, exactly one of them has returned an agent and every
\* other one has returned None (a call whose constructor raised returns
\* nothing and leaves the slot to the others)
C33_OneSlotOneAgent ==
    /\ Cardinality(Succeeded) <= FreeAtStart
    /\ \A c, d \in Succeeded : creators[c].agent = creators[d].agent => c = d
    /\ \A c \in Succeeded : creators[c].agent \in agents
    /\ (/\ FreeAtStart = 1
        /\ Cardinality(Called) >= 2
        /\ \A c \in Called : creators[c].pc = "done"
        /\ \E c \in Called : creators[c].result # "raised")
       => /\ Cardinality(Succeeded) = 1
          /\ \A c \in Called \ Succeeded :
                creators[c].result \in {"None", "raised"}
          /\ (\A c \in Called : creators[c].result # "raised")
                => \A c \in Called \ Succeeded : creators[c].result = "None"

\* two calls raced for the last slot: one got the agent, the other None
C33_Witness ==
    /\ FreeAtStart = 1
    /\ Called = Callers
    /\ \A c \in Callers : creators[c].pc = "done"
    /\ \E c \in Callers :
         /\ creators[c].result = "agent"
         /\ creators[c].agent \in agents
         /\ \A d \in Callers \ {c} : creators[d].result = "None"
    /\ Cardinality(agents) = max_concurrent_agents
    /\ agent_creation_lock = 0


\* ---------------------------------------------------------------- C34
\* the unit of agent a is still running (it has been launched and not ended)
UnitRunning(a) == unit[a].pc \in {"scheduled", "processing"}
\* shutdown stops agent a in this step (line 297), removes it (line 309)
StoppedNow(a) == agent_obj[a].state # "stopped" /\ agent_obj'[a].state = "stopped"
RemovedNow(a) == a \in agents /\ a \notin agents'
\* stop and the release of its resources have been attempted for agent a
StopAttempted(a) ==
    /\ agent_obj'[a].state = "stopped"
    /\ agent_obj'[a].class = "BrowserAgent" => agent_obj'[a].release # "none"

\* C34: during shutdown no agent is stopped, released or removed from the
\* registry while a unit for that agent is still running: every in-flight
\* unit has ended before the first agent is stopped, and the registry and
\* the queue are cleared only after stop and resource release have been
\* attempted for every agent.
C34_UnitsEndBeforeAgentsStop ==
    [][/\ \A a \in AgentIds :
            (StoppedNow(a) \/ RemovedNow(a)
               \/ agent_obj'[a].release # agent_obj[a].release)
              => ~UnitRunning(a)
       /\ (\E a \in AgentIds : StoppedNow(a))
              => \A b \in AgentIds : ~UnitRunning(b)
       /\ (sd_pc # "done" /\ sd_pc' = "done")
              => /\ agents' = {} /\ task_queue' = <<>>
                 /\ \A a \in agents : StopAttempted(a)]_vars

\* What holds of C34: the units shutdown gathered have all ended before the
\* first stop, and the clearing comes last, after the stop and the release
\* of their agents.
GatheredUnitsEndBeforeStop ==
    [][/\ (\E a \in AgentIds : StoppedNow(a))
              => \A b \in sd_gather' : ~UnitRunning(b)
       /\ (\E a \in AgentIds : RemovedNow(a))
              => /\ sd_pc # "done" /\ sd_pc' = "done"
                 /\ agents' = {} /\ task_queue' = <<>>
                 /\ \A a \in agents \cap sd_gather' : StopAttempted(a)]_vars


\* ---------------------------------------------------------------- C35
\* the completion callback of agent a's unit runs in this step
CallbackRuns(a) == unit[a].cb_pending > 0 /\ unit'[a].handled = unit[a].handled + 1

\* C35: a completion callback for a unit that is not in the in-flight map
\* changes nothing: the queue, the in-flight map, the registry, the agents
\* and every retry_count are as before, no task is re-enqueued (no task id
\* is used up), and the run loop and shutdown are where they were.
C35_UnmappedCallbackChangesNothing ==
    [][\A a \in AgentIds :
           CallbackRuns(a) /\ a \notin active_tasks =>
               /\ task_queue' = task_queue
               /\ active_tasks' = active_tasks
               /\ agents' = agents
               /\ agent_obj' = agent_obj
               /\ next_task_id' = next_task_id
               /\ unit'[a].meta = unit[a].meta
               /\ unit'[a].requeued = unit[a].requeued
               /\ unit'[a].decision = "unmapped"
               /\ running' = running
               /\ run_pc' = run_pc
               /\ sd_pc' = sd_pc
               /\ completed_tasks_history' = completed_tasks_history]_vars

\* the callback of a unit that had left the in-flight map has run; its agent
\* is registered, in state error and still carries the task meta, so a
\* callback that had found the unit would have retried the task
C35_Witness ==
    \E a \in AgentIds :
        /\ unit[a].decision = "unmapped"
        /\ unit[a].handled = 1
        /\ a \in agents
        /\ agent_obj[a].state = "error"
        /\ agent_obj[a].has_meta
        /\ RetryAllowed(unit[a].meta)

\* ---------------------------------------------------------------- C36
\* C36: every published snapshot describes one single state of the
\* controller: its task_queue_size is the number of entries of its
\* pending_tasks, its active_agent_count is the number of entries of its
\* active_agents and at most max_concurrent_agents, and its history has at
\* most 50 entries.
C36_SnapshotConsistent ==
    status_key.present =>
        /\ status_key.task_queue_size = status_key.pending_tasks
        /\ status_key.active_agent_count = status_key.active_agents
        /\ status_key.active_agent_count <= status_key.max_concurrent_agents
        /\ status_key.max_concurrent_agents = max_concurrent_agents
        /\ status_key.completed_tasks_history <= HistoryMaxLen

\* a snapshot published by run() while a task waited behind a full registry
\* and the history was full, and since gone stale: a unit has ended
C36_Witness ==
    /\ status_key.present
    /\ status_key.task_queue_size > 0
    /\ status_key.active_agent_count = max_concurrent_agents
    /\ status_key.completed_tasks_history = HistoryMaxLen
    /\ Cardinality(active_tasks) < status_key.active_agent_count


\* ---------------------------------------------------------------- C37
\* C37: in every reachable state each key of the in-flight map is the id of
\* an agent present in the registry, so the units in flight are never more
\* than the registered agents nor than max_concurrent_agents.
C37_InFlightAreRegistered ==
    /\ active_tasks \subseteq agents
    /\ Cardinality(active_tasks) <= Cardinality(agents)
    /\ Cardinality(active_tasks) <= max_concurrent_agents

\* shutdown has returned, and run() had launched a unit while shutdown was
\* awaiting its gather: that unit is still running, in neither map
C37_Witness ==
    /\ sd_pc = "done"
    /\ active_tasks = {} /\ agents = {}
    /\ \E a \in AgentIds \ sd_gather : unit[a].pc = "processing"

\* ---------------------------------------------------------------- C38
\* the unit of agent a has ended otherwise than by cancellation
EndedByItself(a) == unit[a].pc = "done" /\ unit[a].outcome = "returned"
\* process_task of agent a had nothing to work with: a ToolExecutorAgent
\* without code, a ToolCreatorAgent without description
NothingToWorkWith(a) ==
    \/ /\ agent_obj[a].class = "ToolExecutorAgent"
       /\ unit[a].meta.details.fields \cap {"code", "code_key"} = {}
    \/ /\ agent_obj[a].class = "ToolCreatorAgent"
       /\ "description" \notin unit[a].meta.details.fields
\* the entries of the history for the task of agent a's unit
EntriesOf(a) ==
    {i \in 1..Len(completed_tasks_history) :
        completed_tasks_history[i].task_id = unit[a].meta.task_id}

\* C38: a failure that an agent variant reports as an error result string
\* (ToolExecutorAgent on a timeout or without code, ToolCreatorAgent without
\* a language-model client or a description) leaves the agent in state
\* finished: the error string is what the agent reports, the completion
\* handler never re-enqueues the task, and the task is recorded with status
\* completed.
C38_ErrorStringCountsAsSuccess ==
    \A a \in AgentIds :
        /\ EndedByItself(a) /\ NothingToWorkWith(a)
              => unit[a].result \in ErrorResults
        /\ EndedByItself(a) /\ unit[a].result \in ErrorResults
              => /\ unit[a].reported_state = "finished"
                 /\ ~unit[a].error
                 /\ unit[a].decision \notin {"retried", "gave_up"}
                 /\ unit[a].requeued = NoTask
                 /\ unit[a].meta.status = "completed"
                 /\ \A i \in EntriesOf(a) :
                      completed_tasks_history[i].status = "completed"
                 /\ sd_pc = "idle" =>
                      /\ agent_obj[a].state = "finished"
                      /\ EntriesOf(a) # {}
                      /\ short_term_memory[a] = unit[a].result

\* a ToolExecutorAgent's execution has timed out: the unit has ended, its
\* handler has run without retrying, and the history says completed
C38_Witness ==
    \E a \in AgentIds :
        /\ agent_obj[a].class = "ToolExecutorAgent"
        /\ unit[a].result = TimeoutError
        /\ unit[a].handled = 1
        /\ unit[a].decision = "no_retry"
        /\ agent_obj[a].state = "finished"
        /\ EntriesOf(a) # {}
        /\ RetryAllowed(unit[a].meta)

\* ---------------------------------------------------------------- C39
\* agent a's unit was in flight and not done when shutdown began: shutdown
\* requested its cancellation (lines 286-289)
CancelledByShutdown(a) == a \in sd_gather /\ unit[a].must_cancel
\* the task of agent a's unit has exactly one history entry, a cancelled one
RecordedCancelled(a) ==
    /\ Cardinality(EntriesOf(a)) = 1
    /\ \A i \in EntriesOf(a) : completed_tasks_history[i].status = "cancelled"

\* C39: every unit that is in flight when shutdown begins ends with exactly
\* one history entry whose status is cancelled: once shutdown has returned,
\* each of the units it cancelled has that entry.  The tasks still waiting
\* in the queue at shutdown are discarded without any history entry.
C39_CancelledUnitsRecorded ==
    sd_pc = "done" =>
        \A a \in AgentIds : CancelledByShutdown(a) => RecordedCancelled(a)

\* What holds of C39: a cancelled unit that had begun to run has its one
\* cancelled entry, one that had not has none, and the step that ends
\* shutdown discards the waiting tasks, none of which is in the history.
StartedUnitsRecorded ==
    [][(sd_pc # "done" /\ sd_pc' = "done") =>
          /\ \A a \in AgentIds : CancelledByShutdown(a) =>
                 /\ unit[a].started => RecordedCancelled(a)
                 /\ ~unit[a].started => EntriesOf(a) = {}
          /\ task_queue' = <<>>
          /\ completed_tasks_history' = completed_tasks_history
          /\ \A i \in 1..Len(task_queue), j \in 1..Len(completed_tasks_history) :
                 completed_tasks_history[j].task_id # task_queue[i].task_id]_vars

\* ---------------------------------------------------------------- C40
\* shutdown() is called in this step on a controller whose earlier shutdown
\* has returned
SecondShutdown == sd_pc = "done" /\ n_shutdowns' = n_shutdowns + 1

\* C40: calling shutdown a second time after it has completed changes
\* nothing: the running flag stays false, the in-flight map, the registry
\* and the queue stay empty (tasks assigned since the first call are
\* discarded like the others), no unit is cancelled, no agent is stopped or
\* released again, the history is as it was, and the call returns at once
\* without error.
C40_SecondShutdownIsNoOp ==
    [][SecondShutdown =>
          /\ ~running /\ ~running'
          /\ active_tasks = {} /\ active_tasks' = {}
          /\ agents = {} /\ agents' = {}
          /\ task_queue' = <<>>
          /\ agent_obj' = agent_obj
          /\ unit' = unit
          /\ sd_gather' = sd_gather
          /\ completed_tasks_history' = completed_tasks_history
          /\ sd_pc' = "done"
          /\ run_pc' \in {run_pc, "exited"}]_vars

\* shutdown has been called again after it had stopped agents, one of them
\* with a browser to release, and cancelled a unit
C40_Witness ==
    /\ n_shutdowns = MaxShutdowns
    /\ sd_pc = "done"
    /\ ~running /\ active_tasks = {} /\ agents = {} /\ task_queue = <<>>
    /\ \E a \in AgentIds : agent_obj[a].state = "stopped"
                              /\ agent_obj[a].release = "closed"
    /\ \E a \in sd_gather : unit[a].outcome = "cancelled"
====
